---------------------------- MODULE Spec2Model ----------------------------
(***************************************************************************)
(* A model of the ray tracer's render core: the Intersections collection   *)
(* (hit selection, refractive-index stack), the recursive World integrator *)
(* and the serial and parallel render drivers of Camera.                   *)
(*                                                                         *)
(* Numbers.  The program computes in f64/f32.  The model computes in       *)
(* integers: lengths and ray parameters t are counted in units of EPSILON, *)
(* material coefficients and refractive indices in hundredths (1.0 is      *)
(* 100), colours are one grey channel in thousandths (1.0 is 1000), the    *)
(* transparency factor and the reflectance in ten-thousandths.             *)
(*                                                                         *)
(* Geometry.  Scenes are spheres centred on the z axis, lit by a point     *)
(* light on that axis and seen by a camera on it.  The ray of the central  *)
(* pixel and every reflected or refracted ray run along the axis, where    *)
(* roots, normals and biased points are integers; a ray of another pixel   *)
(* keeps the integer representative of its direction and takes part only   *)
(* in the sign test of the sphere's discriminant.                          *)
(***************************************************************************)
EXTENDS Integers, Sequences, FiniteSets, TLC

VARIABLES
    data,       \* Intersections.data of the collection under test
    hitRes,     \* what the last hit() on it returned, "unset" before
    muRes,      \* what the last get_mu_shift() on it returned, "unset" before
    world,      \* the World: point_lights, bodies, reflection_limit
    camera,     \* the Camera
    phase,      \* "render", then "render_par", then "done"
    pc,         \* where each thread stands; thread 0 is the caller of render
    pixel,      \* the x and y of the pixel each thread works on
    ray,        \* each thread's local ray
    color,      \* each thread's local color
    stack,      \* each thread's nested color_at_with_reflection_limit calls
    image,      \* the canvas of render
    canvas,     \* the canvas inside render_par's Mutex
    mutex,      \* the worker that holds the canvas mutex, 0 when it is free
    rows,       \* the rows whose closure has not started yet
    jobs,       \* the pixels of started rows that no worker has taken yet
    writes,     \* how often each index of render_par's canvas was written
    fnCall,     \* the function called on its own and its arguments
    fnRet,      \* what that call returned, "unset" before
    heap        \* the Groups made so far, each behind its Arc<RwLock<..>>

xsVars == <<data, hitRes, muRes>>
renderVars ==
    <<world, camera, phase, pc, pixel, ray, color, stack, image, canvas,
      mutex, rows, jobs, writes>>
callVars == <<fnCall, fnRet, heap>>
vars == <<xsVars, renderVars, callVars>>

-----------------------------------------------------------------------------
(* Bounds of the model *)

\* longest collection that insert and extend build
MaxLen == 3

\* worker threads of the parallel runtime
NWorkers == 2

\* largest World.reflection_limit
MaxLimit == 2

\* most pixels of an image, hsize * vsize
MaxPixels == 3

Workers == 1..NWorkers
Threads == 0..NWorkers

-----------------------------------------------------------------------------
(* Option<T>: None is the empty sequence, Some(v) the one-element sequence *)

None == <<>>
Some(v) == <<v>>

Last(s) == s[Len(s)]

\* a Rust `let`: F applied to the value of v, which is evaluated once
Bind(v, F(_)) == CHOOSE y \in {F(x) : x \in {v}} : TRUE

-----------------------------------------------------------------------------
(* Materials, bodies, rays *)

\* Phong::default()
PhongDefault ==
    [pattern |-> 1000, ambient |-> 10, diffuse |-> 90, specular |-> 90,
     shininess |-> 200, reflectiveness |-> 0, transparency |-> 0,
     refractive_index |-> 100]

\* Phong { refractive_index: mu, ..Default::default() }
PhongWithIndex(mu) == [PhongDefault EXCEPT !.refractive_index = mu]

\* Sphere::new(transform, material); the transform is a uniform scaling by
\* r followed by a translation along z to c
Sphere(c, r, material) ==
    [transform |-> [tz |-> c, s |-> r], material |-> material]

\* Tuple::Point and Tuple::Vector: w is 1 for a point and 0 for a vector
Point(x, y, z) == [x |-> x, y |-> y, z |-> z, w |-> 1]
Vector(x, y, z) == [x |-> x, y |-> y, z |-> z, w |-> 0]

\* impl Add for Tuple: x, y and z are added, w is the left operand's
TupleAdd(a, b) == [x |-> a.x + b.x, y |-> a.y + b.y, z |-> a.z + b.z, w |-> a.w]

\* impl Sub for Tuple: all four components are subtracted
TupleSub(a, b) ==
    [x |-> a.x - b.x, y |-> a.y - b.y, z |-> a.z - b.z, w |-> a.w - b.w]

\* impl AddAssign for Tuple: x, y and z are added, w is left as it is
TupleAddAssign(a, b) ==
    [a EXCEPT !.x = a.x + b.x, !.y = a.y + b.y, !.z = a.z + b.z]

\* impl SubAssign for Tuple: x, y and z are subtracted, w is left as it is
TupleSubAssign(a, b) ==
    [a EXCEPT !.x = a.x - b.x, !.y = a.y - b.y, !.z = a.z - b.z]

\* impl Neg for Tuple
TupleNeg(a) == [x |-> -a.x, y |-> -a.y, z |-> -a.z, w |-> -a.w]

\* impl Mul<T> for Tuple
TupleMul(a, k) == [x |-> a.x * k, y |-> a.y * k, z |-> a.z * k, w |-> a.w * k]

\* Tuple::dot
dot(a, b) == a.x * b.x + a.y * b.y + a.z * b.z

\* f64::sqrt on the integers of the model: the root rounded down
sqrt(n) ==
    Bind(n, LAMBDA v : CHOOSE k \in 0..v : k * k <= v /\ (k + 1) * (k + 1) > v)

\* Tuple::magnitude
magnitude(a) == sqrt(a.x * a.x + a.y * a.y + a.z * a.z)

\* Tuple::normalize.  A vector along the z axis is divided by its magnitude;
\* any other vector has no integer unit vector and stays the representative
\* of its direction
normalize(a) ==
    Bind(a, LAMBDA v :
        IF v.x = 0 /\ v.y = 0 /\ v.z # 0
        THEN Bind(magnitude(v), LAMBDA m :
                 [x |-> 0, y |-> 0, z |-> v.z \div m, w |-> v.w \div m])
        ELSE v)

\* Tuple::reflect
reflect(a, normal) ==
    Bind(dot(a, normal), LAMBDA d :
        TupleSub(a, TupleMul(TupleMul(normal, 2), d)))

\* Ray::new
Ray(origin, direction) == [origin |-> origin, direction |-> direction]

\* Ray::position
Ray_position(r, t) == TupleAdd(r.origin, TupleMul(r.direction, t))

\* Intersections::new
Intersections_new(i) == i

\* Intersection::new
Intersection(t, body, r) == [t |-> t, body |-> body, ray |-> r]

\* impl PartialEq for Intersection: two intersections are equal when their
\* t is equal, whatever their body and ray
IntersectionEq(a, b) == a.t = b.t

\* Material::refractive_index
refractive_index(material) == material.refractive_index

\* the quadratic of Sphere::intersect for the ray seen from the sphere.  The
\* object-space ray is the world ray moved by -tz and scaled by 1/s; a, b and
\* c are kept multiplied by s * s, which leaves the roots as they are
Sphere_quadratic(sphere, r) ==
    Bind(TupleSub(r.origin, Point(0, 0, sphere.transform.tz)),
         LAMBDA sphere_to_ray :
        LET a == dot(r.direction, r.direction)
            b == 2 * dot(r.direction, sphere_to_ray)
            c == dot(sphere_to_ray, sphere_to_ray)
                     - sphere.transform.s * sphere.transform.s
        IN  [a |-> a, b |-> b, c |-> c, disc |-> b * b - 4 * a * c])

\* Sphere::intersect_in_object_space: the real roots in ascending order, none
\* when the discriminant is negative (the two roots are NaN and are dropped)
Sphere_intersect_in_object_space(sphere, r) ==
    Bind(Sphere_quadratic(sphere, r), LAMBDA q :
        IF q.disc < 0 THEN <<>>
        ELSE Bind(sqrt(q.disc), LAMBDA root :
                 <<(-q.b - root) \div (2 * q.a), (-q.b + root) \div (2 * q.a)>>))

\* Intersectable::intersect: one Intersection per root, with the body and
\* the world ray
Body_intersect(body, r) ==
    LET result == Sphere_intersect_in_object_space(body, r)
    IN  Intersections_new(
            [k \in 1..Len(result) |-> Intersection(result[k], body, r)])

-----------------------------------------------------------------------------
(* Intersections *)

\* Intersections::insert
insert(d, i) == Append(d, i)

\* extend that keeps the collection as it was
extend_nothing(d, xs) == d

\* Intersections::extend
extend(d, xs) == d \o xs

\* Vec::sort_by with |a, b| a.t.partial_cmp(&b.t) is a stable sort: the
\* element at k comes behind the elements of smaller t and behind the
\* elements of equal t that stood before it
place(d, k) ==
    1 + Cardinality({j \in 1..Len(d) :
                        d[j].t < d[k].t \/ (d[j].t = d[k].t /\ j < k)})

\* the elements of d, each at its place
sorted(d) ==
    [p \in 1..Len(d) |-> d[CHOOSE k \in 1..Len(d) : place(d, k) = p]]

\* Intersections::sort_by as World::intersect and the tests call it
sort_by(d) == Bind(d, sorted)

\* hit with `t >= 0.0` in place of `t > 0.0`
RECURSIVE hit_from_nonneg(_, _)
hit_from_nonneg(d, k) ==
    IF k > Len(d) THEN None
    ELSE IF d[k].t >= 0 THEN Some(d[k])
    ELSE hit_from_nonneg(d, k + 1)

\* the loop of Intersections::hit from element k on
RECURSIVE hit_from(_, _)
hit_from(d, k) ==
    IF k > Len(d) THEN None
    ELSE IF d[k].t > 0 THEN Some(d[k])
    ELSE hit_from(d, k + 1)

\* Intersections::hit
hit(d) == Bind(d, LAMBDA v : hit_from(v, 1))

\* Vec::contains and Iterator::position on containers; Body equality is
\* structural (derive(PartialEq))
contains(containers, body) ==
    \E j \in 1..Len(containers) : containers[j] = body

position(containers, body) ==
    CHOOSE j \in 1..Len(containers) :
        /\ containers[j] = body
        /\ \A l \in 1..(j - 1) : containers[l] # body

\* Vec::remove(index)
remove(containers, index) ==
    SubSeq(containers, 1, index - 1)
        \o SubSeq(containers, index + 1, Len(containers))

\* get_mu_shift that reads mu_to before it toggles the hit's body
RECURSIVE mu_shift_from_early(_, _, _, _, _)
mu_shift_from_early(d, intersection, k, containers, mu) ==
    IF k > Len(d) THEN mu
    ELSE
        LET i == d[k]
            mu_from ==
                IF IntersectionEq(i, intersection) /\ containers # <<>>
                THEN refractive_index(Last(containers).material)
                ELSE mu[1]
            toggled ==
                IF contains(containers, i.body)
                THEN remove(containers, position(containers, i.body))
                ELSE Append(containers, i.body)
        IN  IF IntersectionEq(i, intersection)
            THEN <<mu_from,
                   IF containers # <<>>
                   THEN refractive_index(Last(containers).material)
                   ELSE mu[2]>>
            ELSE mu_shift_from_early(d, intersection, k + 1, toggled,
                                     <<mu_from, mu[2]>>)

\* the loop of Intersections::get_mu_shift from element k on; mu is the pair
\* (mu_from, mu_to) so far
RECURSIVE mu_shift_from(_, _, _, _, _)
mu_shift_from(d, intersection, k, containers, mu) ==
    IF k > Len(d) THEN mu
    ELSE
        LET i == d[k]
            mu_from ==
                IF IntersectionEq(i, intersection) /\ containers # <<>>
                THEN refractive_index(Last(containers).material)
                ELSE mu[1]
            toggled ==
                IF contains(containers, i.body)
                THEN remove(containers, position(containers, i.body))
                ELSE Append(containers, i.body)
        IN  IF IntersectionEq(i, intersection)
            THEN <<mu_from,
                   IF toggled # <<>>
                   THEN refractive_index(Last(toggled).material)
                   ELSE mu[2]>>
            ELSE Bind(toggled,
                      LAMBDA c : mu_shift_from(d, intersection, k + 1, c,
                                               <<mu_from, mu[2]>>))

\* Intersections::get_mu_shift
get_mu_shift(d, intersection) ==
    Bind(d, LAMBDA v :
        Bind(intersection, LAMBDA i :
            mu_shift_from(v, i, 1, <<>>, <<100, 100>>)))

-----------------------------------------------------------------------------
(* Shading *)

\* consts::EPSILON, the unit of length of the model
EPSILON == 1

\* Color::BLACK()
BLACK == 0

\* impl Mul<f32> for Color, the factor in hundredths
ColorMul(c, f) == (c * f) \div 100

\* impl Mul<f64> for Color, the factor in ten-thousandths
ColorScale(c, f) == (c * f) \div 10000

\* impl Mul<Color> for Color
ColorHadamard(a, b) == (a * b) \div 1000

\* Color::new with its three channels, each in thousandths
Color_new(red, green, blue) == [red |-> red, green |-> green, blue |-> blue]

\* `x as i64` for a float x kept in thousandths: the fraction is cut off
\* toward zero
as_i64(x) == IF x >= 0 THEN x \div 1000 ELSE -((-x) \div 1000)

\* std::cmp::min
min(a, b) == IF a <= b THEN a ELSE b

\* ToRGB::to_rgb_string: the three integers that the string
\* "{} {} {}" is written from
to_rgb_string(c) ==
    <<min(as_i64(c.red * 255), 255), min(as_i64(c.green * 255), 255),
      min(as_i64(c.blue * 255), 255)>>

\* the operator % of Rust on integers: the remainder has the sign of n
rem(n, m) == IF n >= 0 THEN n % m ELSE -((-n) % m)

\* f64::floor of a coordinate kept in thousandths, as a whole number
floor(x) == x \div 1000

\* Striped whose cast cuts the fraction off without floor()
Striped_color_at_truncated(pattern, pos) ==
    IF rem(as_i64(pos.x), 2) = 0 THEN pattern.color_a
    ELSE pattern.color_b

\* Stencil::color_at_in_pattern_space for Striped; the cast `as isize` of a
\* floored coordinate keeps its value
Striped_color_at_in_pattern_space(pattern, pos) ==
    IF rem(floor(pos.x), 2) = 0 THEN pattern.color_a
    ELSE pattern.color_b

\* Body::normal_at for a sphere: the object-space normal is the point seen
\* from the centre, w is forced to 0 and the vector is normalized (the
\* division by the scale on the way to object space and back is a positive
\* factor that normalize removes)
normal_at(body, point) ==
    Bind(TupleSub(point, Point(0, 0, body.transform.tz)),
         LAMBDA object_normal : normalize([object_normal EXCEPT !.w = 0]))

\* to_computed that keeps the body's normal as it is when the eye is inside
to_computed_unflipped(i, mu_from, mu_to) ==
    Bind(Ray_position(i.ray, i.t), LAMBDA pos :
    Bind(normal_at(i.body, pos), LAMBDA normal :
    Bind(TupleNeg(i.ray.direction), LAMBDA eyev :
    Bind(dot(normal, eyev) < 0, LAMBDA inside :
    Bind(reflect(i.ray.direction, normal), LAMBDA reflectv :
        [inside |-> inside, point |-> pos, body |-> i.body, eyev |-> eyev,
         normalv |-> normal, reflectv |-> reflectv,
         mu_from |-> mu_from, mu_to |-> mu_to])))))

\* Intersection::to_computed and ComputedIntersection::new
to_computed(i, mu_from, mu_to) ==
    Bind(Ray_position(i.ray, i.t), LAMBDA pos :
    Bind(normal_at(i.body, pos), LAMBDA normal :
    Bind(TupleNeg(i.ray.direction), LAMBDA eyev :
    Bind(dot(normal, eyev) < 0, LAMBDA inside :
    Bind(IF inside THEN TupleNeg(normal) ELSE normal, LAMBDA normalv :
    Bind(reflect(i.ray.direction, normalv), LAMBDA reflectv :
        [inside |-> inside, point |-> pos, body |-> i.body, eyev |-> eyev,
         normalv |-> normalv, reflectv |-> reflectv,
         mu_from |-> mu_from, mu_to |-> mu_to]))))))

\* ComputedIntersection.over_point and under_point: the point moved by
\* EPSILON along the normal and against it
over_point(cs) == TupleAdd(cs.point, TupleMul(cs.normalv, EPSILON))
under_point(cs) == TupleSub(cs.point, TupleMul(cs.normalv, EPSILON))

\* schlick whose r0 is (mu_from / (mu_from + mu_to))^2
schlick_r0_sum(cs) ==
    Bind(dot(cs.eyev, cs.normalv), LAMBDA cos :
        LET mf == cs.mu_from
            mt == cs.mu_to
            total_internal == mf > mt /\ mf * mf * (1 - cos * cos) > mt * mt
            r0 == (mf * mf * 10000) \div ((mf + mt) * (mf + mt))
        IN  IF total_internal THEN 10000
            ELSE Bind(IF mf > mt
                      THEN sqrt((mt * mt - mf * mf * (1 - cos * cos))
                                    \div (mt * mt))
                      ELSE cos,
                      LAMBDA cos_i :
                          r0 + (10000 - r0) * (1 - cos_i) * (1 - cos_i)
                                   * (1 - cos_i) * (1 - cos_i) * (1 - cos_i)))

\* ComputedIntersection::schlick, in ten-thousandths
schlick(cs) ==
    Bind(dot(cs.eyev, cs.normalv), LAMBDA cos :
        LET mf == cs.mu_from
            mt == cs.mu_to
            total_internal == mf > mt /\ mf * mf * (1 - cos * cos) > mt * mt
            r0 == ((mf - mt) * (mf - mt) * 10000) \div ((mf + mt) * (mf + mt))
        IN  IF total_internal THEN 10000
            ELSE Bind(IF mf > mt
                      THEN sqrt((mt * mt - mf * mf * (1 - cos * cos))
                                    \div (mt * mt))
                      ELSE cos,
                      LAMBDA cos_i :
                          r0 + (10000 - r0) * (1 - cos_i) * (1 - cos_i)
                                   * (1 - cos_i) * (1 - cos_i) * (1 - cos_i)))

\* World::intersect over bodies k..: every body's intersections, appended
RECURSIVE intersect_from(_, _, _)
intersect_from(bodies, r, k) ==
    IF k > Len(bodies) THEN <<>>
    ELSE extend(Body_intersect(bodies[k], r), intersect_from(bodies, r, k + 1))

\* World::intersect
intersect(w, r) == sort_by(intersect_from(w.bodies, r, 1))

\* is_shadowed that takes any hit for a shadow, wherever the light is
is_shadowed_any_hit(w, point) ==
    \E n \in 1..Len(w.point_lights) :
        Bind(TupleSub(w.point_lights[n].position, point), LAMBDA v :
        Bind(hit(intersect(w, Ray(point, normalize(v)))), LAMBDA h :
            h # None))

\* World::is_shadowed
is_shadowed(w, point) ==
    \E n \in 1..Len(w.point_lights) :
        Bind(TupleSub(w.point_lights[n].position, point), LAMBDA v :
        Bind(magnitude(v), LAMBDA distance :
        Bind(hit(intersect(w, Ray(point, normalize(v)))), LAMBDA h :
            IF h = None THEN FALSE ELSE h[1].t < distance)))

\* the fold of transparency_factor without hit_objects: every intersection
\* in range multiplies its transparency in
RECURSIVE transparency_fold_each(_, _, _, _, _)
transparency_fold_each(xs, distance, k, hit_objects, acc) ==
    IF k > Len(xs) THEN acc
    ELSE IF xs[k].t < 0 \/ xs[k].t > distance
         THEN transparency_fold_each(xs, distance, k + 1, hit_objects, acc)
    ELSE transparency_fold_each(xs, distance, k + 1, hit_objects,
             (acc * xs[k].body.material.transparency) \div 100)

\* the fold of World::transparency_factor from element k on: acc is the
\* factor so far, hit_objects the materials already counted
RECURSIVE transparency_fold(_, _, _, _, _)
transparency_fold(xs, distance, k, hit_objects, acc) ==
    IF k > Len(xs) THEN acc
    ELSE IF xs[k].t < 0 \/ xs[k].t > distance
         THEN transparency_fold(xs, distance, k + 1, hit_objects, acc)
    ELSE IF xs[k].body.material \in hit_objects
         THEN transparency_fold(xs, distance, k + 1, hit_objects, acc)
    ELSE transparency_fold(xs, distance, k + 1,
             hit_objects \cup {xs[k].body.material},
             (acc * xs[k].body.material.transparency) \div 100)

\* World::transparency_factor, in ten-thousandths
transparency_factor(w, point) ==
    Bind(TupleSub(w.point_lights[1].position, point), LAMBDA v :
    Bind(magnitude(v), LAMBDA distance :
    Bind(Ray(point, normalize(v)), LAMBDA r :
    Bind(intersect(w, r), LAMBDA xs :
        transparency_fold(xs, distance, 1, {}, 10000)))))

\* lighting that attenuates the ambient term as well
lighting_all_attenuated(material, light, point, eyev, normalv, factor) ==
    Bind(ColorHadamard(material.pattern, light.intensity),
         LAMBDA effective_color :
    Bind(normalize(TupleSub(light.position, point)), LAMBDA lightv :
    Bind(dot(lightv, normalv), LAMBDA light_dot_normal :
    Bind(dot(reflect(TupleNeg(lightv), normalv), eyev),
         LAMBDA reflect_dot_eye :
        LET ambient == ColorMul(effective_color, material.ambient)
            diffuse ==
                IF light_dot_normal < 0 THEN BLACK
                ELSE ColorMul(effective_color, material.diffuse)
                         * light_dot_normal
            specular ==
                IF light_dot_normal < 0 \/ reflect_dot_eye <= 0 THEN BLACK
                ELSE ColorMul(light.intensity, material.specular)
        IN  ColorScale(ambient + diffuse + specular, factor)))))

\* Phong::lighting with a Flat pattern.  A point that is shaded lies on the
\* axis, where a positive reflect_dot_eye is 1 and so is its power
\* reflect_dot_eye.powf(shininess)
lighting(material, light, point, eyev, normalv, factor) ==
    Bind(ColorHadamard(material.pattern, light.intensity),
         LAMBDA effective_color :
    Bind(normalize(TupleSub(light.position, point)), LAMBDA lightv :
    Bind(dot(lightv, normalv), LAMBDA light_dot_normal :
    Bind(dot(reflect(TupleNeg(lightv), normalv), eyev),
         LAMBDA reflect_dot_eye :
        LET ambient == ColorMul(effective_color, material.ambient)
            diffuse ==
                IF light_dot_normal < 0 THEN BLACK
                ELSE ColorMul(effective_color, material.diffuse)
                         * light_dot_normal
            specular ==
                IF light_dot_normal < 0 \/ reflect_dot_eye <= 0 THEN BLACK
                ELSE ColorMul(light.intensity, material.specular)
        IN  ambient + ColorScale(diffuse + specular, factor)))))

\* World::surface_color_at
surface_color_at(w, cs) ==
    Bind(transparency_factor(w, over_point(cs)), LAMBDA factor :
        lighting(cs.body.material, w.point_lights[1], cs.point, cs.eyev,
                 cs.normalv, factor))

\* the ray World::reflected_color_at casts
reflected_ray(cs) == Ray(over_point(cs), cs.reflectv)

\* the test of World::refracted_color_at for total internal reflection:
\* sin2_t > 1 with sin2_t = (mu_from / mu_to)^2 * (1 - cos_i^2)
total_internal_reflection(cs) ==
    LET cos_i == dot(cs.eyev, cs.normalv)
    IN  cs.mu_from * cs.mu_from * (1 - cos_i * cos_i) > cs.mu_to * cs.mu_to

\* the ray World::refracted_color_at casts, its direction
\* normalv * (mu_ratio * cos_i - cos_t) - eyev * mu_ratio computed times mu_to
\* and divided by it at the end
refracted_ray(cs) ==
    Bind(dot(cs.eyev, cs.normalv), LAMBDA cos_i :
    Bind(sqrt((cs.mu_to * cs.mu_to
                  - cs.mu_from * cs.mu_from * (1 - cos_i * cos_i))
              \div (cs.mu_to * cs.mu_to)), LAMBDA cos_t :
    Bind(TupleSub(
             TupleMul(cs.normalv, cs.mu_from * cos_i - cs.mu_to * cos_t),
             TupleMul(cs.eyev, cs.mu_from)), LAMBDA scaled :
        Ray(under_point(cs),
            [x |-> scaled.x \div cs.mu_to, y |-> scaled.y \div cs.mu_to,
             z |-> scaled.z \div cs.mu_to, w |-> scaled.w \div cs.mu_to]))))

\* reflected_color_at that hands its own remaining count on
reflected_color_at_undecremented(cs, material, remaining_reflections) ==
    IF remaining_reflections > 0 /\ material.reflectiveness # 0
    THEN Some([ray |-> reflected_ray(cs), remaining |-> remaining_reflections])
    ELSE None

\* what World::reflected_color_at does before it recurses: the ray and the
\* remaining count of the call it makes, None when it returns black at once
reflected_color_at(cs, material, remaining_reflections) ==
    IF remaining_reflections > 0 /\ material.reflectiveness # 0
    THEN Some([ray |-> reflected_ray(cs),
               remaining |-> remaining_reflections - 1])
    ELSE None

\* refracted_color_at without the test `remaining_reflections > 0`
refracted_color_at_unbounded(cs, material, remaining_reflections) ==
    IF material.transparency # 0
    THEN IF ~total_internal_reflection(cs)
         THEN Some([ray |-> refracted_ray(cs),
                    remaining |-> remaining_reflections - 1])
         ELSE None
    ELSE None

\* refracted_color_at that casts a ray on total internal reflection as well,
\* along reflectv
refracted_color_at_mirrored(cs, material, remaining_reflections) ==
    IF remaining_reflections > 0 /\ material.transparency # 0
    THEN IF ~total_internal_reflection(cs)
         THEN Some([ray |-> refracted_ray(cs),
                    remaining |-> remaining_reflections - 1])
         ELSE Some([ray |-> Ray(under_point(cs), cs.reflectv),
                    remaining |-> remaining_reflections - 1])
    ELSE None

\* what World::refracted_color_at does before it recurses, likewise
refracted_color_at(cs, material, remaining_reflections) ==
    IF remaining_reflections > 0 /\ material.transparency # 0
    THEN IF ~total_internal_reflection(cs)
         THEN Some([ray |-> refracted_ray(cs),
                    remaining |-> remaining_reflections - 1])
         ELSE None
    ELSE None

\* total_color that mixes by Schlick as soon as one of the two is not zero
total_color_either(cs, material, surface_color, reflected_color, refracted_color) ==
    IF material.transparency # 0 \/ material.reflectiveness # 0
    THEN surface_color
             + ColorScale(reflected_color, schlick(cs))
             + ColorScale(refracted_color, 10000 - schlick(cs))
    ELSE surface_color + reflected_color + refracted_color

\* total_color of World::color_at_with_reflection_limit
total_color(cs, material, surface_color, reflected_color, refracted_color) ==
    IF material.transparency # 0 /\ material.reflectiveness # 0
    THEN surface_color
             + ColorScale(reflected_color, schlick(cs))
             + ColorScale(refracted_color, 10000 - schlick(cs))
    ELSE surface_color + reflected_color + refracted_color

\* xs.get_mu_shift, body.material() and to_computed for the hit h of xs,
\* None when h is None
hit_for_shading(xs, h) ==
    IF h = None THEN None
    ELSE Bind(get_mu_shift(xs, h[1]), LAMBDA mu :
             Some([material |-> h[1].body.material,
                   cs |-> to_computed(h[1], mu[1], mu[2])]))

\* the first lines of World::color_at_with_reflection_limit: the hit of the
\* ray in the world made ready for shading, None without a hit
shading_of(w, r) ==
    Bind(intersect(w, r),
         LAMBDA xs : Bind(hit(xs), LAMBDA h : hit_for_shading(xs, h)))

\* World::color_at_with_reflection_limit as a function of its arguments
RECURSIVE color_at_with_reflection_limit(_, _, _)
color_at_with_reflection_limit(w, r, remaining_reflections) ==
    LET sh == shading_of(w, r)
    IN  IF sh = None THEN BLACK
        ELSE
            LET cs == sh[1].cs
                material == sh[1].material
                up == reflected_color_at(cs, material, remaining_reflections)
                down == refracted_color_at(cs, material, remaining_reflections)
                reflected_color ==
                    IF up = None THEN BLACK
                    ELSE ColorMul(
                             color_at_with_reflection_limit(
                                 w, up[1].ray, up[1].remaining),
                             material.reflectiveness)
                refracted_color ==
                    IF down = None THEN BLACK
                    ELSE ColorMul(
                             color_at_with_reflection_limit(
                                 w, down[1].ray, down[1].remaining),
                             material.transparency)
            IN  total_color(cs, material, surface_color_at(w, cs),
                            reflected_color, refracted_color)

\* World::color_at
color_at(w, r) == color_at_with_reflection_limit(w, r, w.reflection_limit)

-----------------------------------------------------------------------------
(* Camera and Canvas *)

\* Camera::new with field_of_view = PI_BY_2, whose half_view is 1.
\* half_width, half_height and pixel_size are kept multiplied by
\* hsize * vsize, which makes them integers
Camera_new(hsize, vsize, tz) ==
    LET unit == hsize * vsize
    IN  [hsize |-> hsize, vsize |-> vsize, transform |-> [tz |-> tz],
         unit |-> unit,
         half_width |-> IF hsize >= vsize THEN unit ELSE hsize * hsize,
         half_height |-> IF hsize >= vsize THEN vsize * vsize ELSE unit,
         pixel_size |-> IF hsize >= vsize THEN 2 * vsize ELSE 2 * hsize]

\* Camera::ray_for_pixel.  The camera looks down the z axis from z = tz:
\* the inverse of its transform moves Point(0, 0, 0) to the origin of the
\* ray, and pixel - origin is Vector(world_x, world_y, -1), here times unit
ray_for_pixel(cam, px, py) ==
    LET xoffset == ((2 * px + 1) * cam.pixel_size) \div 2
        yoffset == ((2 * py + 1) * cam.pixel_size) \div 2
        world_x == cam.half_width - xoffset
        world_y == cam.half_height - yoffset
        origin == Point(0, 0, cam.transform.tz)
    IN  Bind(normalize(Vector(world_x, world_y, -cam.unit)),
             LAMBDA direction : Ray(origin, direction))

\* Canvas::new: height rows of width black pixels
Canvas_new(width, height) ==
    [width |-> width, height |-> height,
     frame |-> [y \in 0..(height - 1) |-> [x \in 0..(width - 1) |-> BLACK]]]

\* Canvas::set_color_at_pixel
set_color_at_pixel(cv, x, y, c) == [cv EXCEPT !.frame[y][x] = c]

-----------------------------------------------------------------------------
(* The Intersections collection under test: built with new, insert and     *)
(* extend, sorted with sort_by, queried with hit and get_mu_shift.         *)

\* the spheres of the test mu_shift_works, lengths in quarters: s4 is scaled
\* by 4, sdown and sup are unit spheres moved to z = -0.25 and z = 0.25
NestedS4 == Sphere(0, 16, PhongWithIndex(150))
NestedSdown == Sphere(-1, 4, PhongWithIndex(200))
NestedSup == Sphere(1, 4, PhongWithIndex(250))
NestedBodies == {NestedS4, NestedSdown, NestedSup}

\* its ray: Ray::new(Point(0, 0, -5), Vector(0, 0, 1))
NestedRay == Ray(Point(0, 0, -20), Vector(0, 0, 1))

\* the ray of the intersections made one at a time with Intersection::new
ProbeRay == Ray(Point(0, 0, 0), Vector(0, 0, 1))

\* the values of t of those intersections: behind the origin, at it, ahead
ProbeT == {-1, 0, 1, 2}

ProbeIntersections ==
    {Intersection(t, b, ProbeRay) : t \in ProbeT, b \in NestedBodies}

Unset == [done |-> FALSE, value |-> None]
Returned(v) == [done |-> TRUE, value |-> v]

XsInit ==
    /\ data = Intersections_new(<<>>)
    /\ hitRes = Unset
    /\ muRes = Unset

\* xs.insert(i) with a hand-made intersection
Insert(i) ==
    /\ Len(data) < MaxLen
    /\ \A k \in 1..Len(data) : data[k].ray = ProbeRay
    /\ data' = insert(data, i)
    /\ hitRes' = Unset
    /\ muRes' = Unset
    /\ UNCHANGED <<renderVars, callVars>>

\* xs.extend(body.intersect(&r)) for a body not yet intersected
Extend(body) ==
    /\ \A k \in 1..Len(data) : data[k].ray = NestedRay /\ data[k].body # body
    /\ data' = extend(data, Body_intersect(body, NestedRay))
    /\ hitRes' = Unset
    /\ muRes' = Unset
    /\ UNCHANGED <<renderVars, callVars>>

\* xs.sort_by(|a, b| a.t.partial_cmp(&b.t).unwrap())
SortBy ==
    /\ data' = sort_by(data)
    /\ hitRes' = Unset
    /\ muRes' = Unset
    /\ UNCHANGED <<renderVars, callVars>>

\* xs.hit()
Hit ==
    /\ ~hitRes.done
    /\ hitRes' = Returned(hit(data))
    /\ UNCHANGED <<data, muRes, renderVars, callVars>>

\* xs.get_mu_shift(xs.hit().unwrap())
GetMuShift ==
    /\ hitRes.done
    /\ hitRes.value # None
    /\ ~muRes.done
    /\ muRes' = Returned(get_mu_shift(data, hitRes.value[1]))
    /\ UNCHANGED <<data, hitRes, renderVars, callVars>>

NextXs ==
    \/ \E i \in ProbeIntersections : Insert(i)
    \/ \E body \in NestedBodies : Extend(body)
    \/ SortBy
    \/ Hit
    \/ GetMuShift

-----------------------------------------------------------------------------
(* Scenes: a camera at z = 20 that looks down the z axis, a light behind   *)
(* it at z = 26, and up to three spheres of radius 4: one in front of the  *)
(* camera at z = 0, one behind that at z = -12, one behind the camera and  *)
(* the light at z = 36.                                                    *)

Matte == PhongDefault
Mirror == [PhongDefault EXCEPT !.reflectiveness = 50]
Glass ==
    [PhongDefault EXCEPT !.reflectiveness = 50, !.transparency = 90,
                         !.refractive_index = 150]

\* PointLight::new(Point(0, 0, 26), Color::WHITE())
SceneLight == [position |-> Point(0, 0, 26), intensity |-> 1000]

NearMatte == Sphere(0, 4, Matte)
NearGlass == Sphere(0, 4, Glass)
FarMirror == Sphere(-12, 4, Mirror)
BackMirror == Sphere(36, 4, Mirror)

\* World.bodies: nothing, a body behind the camera only, a matte sphere, a
\* glass sphere, two mirrors that face each other, the glass sphere between
\* the mirrors
Scenes ==
    {<<>>, <<BackMirror>>, <<NearMatte>>, <<NearGlass>>,
     <<FarMirror, BackMirror>>, <<NearGlass, FarMirror, BackMirror>>}

\* World::new(point_lights, bodies, reflection_limit)
World_new(point_lights, bodies, reflection_limit) ==
    [point_lights |-> point_lights, bodies |-> bodies,
     reflection_limit |-> reflection_limit]

Worlds ==
    {World_new(<<SceneLight>>, bodies, k) : bodies \in Scenes, k \in 0..MaxLimit}

\* Camera::new(hsize, vsize, PI_BY_2) for the image sizes of the model
Cameras ==
    {Camera_new(size[1], size[2], 20) :
        size \in {sz \in (1..MaxPixels) \X (1..MaxPixels) :
                     sz[1] * sz[2] <= MaxPixels}}

-----------------------------------------------------------------------------
(* The render: Camera::render on thread 0, then Camera::render_par on the  *)
(* workers of the parallel runtime, for the same World and Camera.         *)

NoPixel == [x |-> 0, y |-> 0]
NoRay == Ray(Point(0, 0, 0), Vector(0, 0, 0))
NoCs == to_computed(Intersection(0, Sphere(1, 1, Matte), NoRay), 100, 100)

\* one invocation of color_at_with_reflection_limit: its arguments, where it
\* stands and its locals
Frame(r, remaining_reflections) ==
    [ray |-> r, remaining |-> remaining_reflections, at |-> "intersect",
     material |-> Matte, cs |-> NoCs,
     surface_color |-> BLACK, reflected_color |-> BLACK,
     refracted_color |-> BLACK]

Top(th) == stack[th][Len(stack[th])]

\* the stack of th once its top invocation has returned value: the caller,
\* if there is one, scales it into the local it was waiting for
ReturnTo(th, value) ==
    LET n == Len(stack[th])
        caller == stack[th][n - 1]
    IN  IF n = 1 THEN <<>>
        ELSE SubSeq(stack[th], 1, n - 2) \o
             << IF caller.at = "reflected"
                THEN [caller EXCEPT
                         !.reflected_color =
                             ColorMul(value, caller.material.reflectiveness),
                         !.at = "refract"]
                ELSE [caller EXCEPT
                         !.refracted_color =
                             ColorMul(value, caller.material.transparency),
                         !.at = "total"] >>

\* what follows world.color_at in the loop body: the write of the pixel
AfterColor(th) == IF th = 0 THEN "set" ELSE "lock"

InitRender ==
    /\ world \in Worlds
    /\ camera \in Cameras
    /\ phase = "render"
    /\ pc = [th \in Threads |-> IF th = 0 THEN "ray" ELSE "idle"]
    /\ pixel = [th \in Threads |-> NoPixel]
    /\ ray = [th \in Threads |-> NoRay]
    /\ color = [th \in Threads |-> BLACK]
    /\ stack = [th \in Threads |-> <<>>]
    /\ image = Canvas_new(camera.hsize, camera.vsize)
    /\ canvas = Canvas_new(camera.hsize, camera.vsize)
    /\ mutex = 0
    /\ rows = {}
    /\ jobs = {}
    /\ writes = [x \in 0..MaxPixels, y \in 0..MaxPixels |-> 0]

sceneVars == <<world, camera>>
parVars == <<canvas, mutex, rows, jobs, writes>>

\* let ray = self.ray_for_pixel(x, y)
RayForPixel(th) ==
    /\ pc[th] = "ray"
    /\ ray' = [ray EXCEPT ![th] = ray_for_pixel(camera, pixel[th].x, pixel[th].y)]
    /\ pc' = [pc EXCEPT ![th] = "color"]
    /\ UNCHANGED <<xsVars, callVars, sceneVars, phase, pixel, color, stack, image, parVars>>

\* world.color_at(ray) calls color_at_with_reflection_limit
ColorAt(th) ==
    /\ pc[th] = "color"
    /\ stack' = [stack EXCEPT
                    ![th] = <<Frame(ray[th], world.reflection_limit)>>]
    /\ pc' = [pc EXCEPT ![th] = "shade"]
    /\ UNCHANGED <<xsVars, callVars, sceneVars, phase, pixel, ray, color, image, parVars>>

\* the top invocation returns value to its caller, to the loop body when it
\* is the outermost one
Return(th, value) ==
    /\ stack' = [stack EXCEPT ![th] = ReturnTo(th, value)]
    /\ IF Len(stack[th]) = 1
       THEN /\ color' = [color EXCEPT ![th] = value]
            /\ pc' = [pc EXCEPT ![th] = AfterColor(th)]
       ELSE UNCHANGED <<color, pc>>
    /\ UNCHANGED <<xsVars, callVars, sceneVars, phase, pixel, ray, image, parVars>>

\* a miss that returns the light's colour as a background
NoHit_background(th) ==
    /\ pc[th] = "shade"
    /\ Top(th).at = "intersect"
    /\ shading_of(world, Top(th).ray) = None
    /\ Return(th, world.point_lights[1].intensity)

\* self.intersect(ray) has no hit: Color::BLACK()
NoHit(th) ==
    /\ pc[th] = "shade"
    /\ Top(th).at = "intersect"
    /\ shading_of(world, Top(th).ray) = None
    /\ Return(th, BLACK)

\* self.intersect(ray) has a hit: get_mu_shift, to_computed, surface_color_at
Shade(th) ==
    /\ pc[th] = "shade"
    /\ Top(th).at = "intersect"
    /\ \E sh \in {shading_of(world, Top(th).ray)} :
          /\ sh # None
          /\ stack' = [stack EXCEPT ![th][Len(stack[th])] =
                          [@ EXCEPT !.material = sh[1].material,
                                    !.cs = sh[1].cs,
                                    !.surface_color =
                                        surface_color_at(world, sh[1].cs),
                                    !.at = "reflect"]]
    /\ UNCHANGED <<xsVars, callVars, sceneVars, phase, pc, pixel, ray, color, image, parVars>>

\* self.reflected_color_at(&cs, material, remaining_reflections)
Reflect(th) ==
    /\ pc[th] = "shade"
    /\ Top(th).at = "reflect"
    /\ LET f == Top(th)
           call == reflected_color_at(f.cs, f.material, f.remaining)
       IN  stack' = [stack EXCEPT ![th] =
               IF call = None
               THEN [@ EXCEPT ![Len(@)] =
                        [f EXCEPT !.reflected_color = BLACK, !.at = "refract"]]
               ELSE Append([@ EXCEPT ![Len(@)] = [f EXCEPT !.at = "reflected"]],
                           Frame(call[1].ray, call[1].remaining))]
    /\ UNCHANGED <<xsVars, callVars, sceneVars, phase, pc, pixel, ray, color, image, parVars>>

\* self.refracted_color_at(&cs, material, remaining_reflections)
Refract(th) ==
    /\ pc[th] = "shade"
    /\ Top(th).at = "refract"
    /\ LET f == Top(th)
           call == refracted_color_at(f.cs, f.material, f.remaining)
       IN  stack' = [stack EXCEPT ![th] =
               IF call = None
               THEN [@ EXCEPT ![Len(@)] =
                        [f EXCEPT !.refracted_color = BLACK, !.at = "total"]]
               ELSE Append([@ EXCEPT ![Len(@)] = [f EXCEPT !.at = "refracted"]],
                           Frame(call[1].ray, call[1].remaining))]
    /\ UNCHANGED <<xsVars, callVars, sceneVars, phase, pc, pixel, ray, color, image, parVars>>

\* total_color is computed and returned
Total(th) ==
    /\ pc[th] = "shade"
    /\ Top(th).at = "total"
    /\ LET f == Top(th)
       IN  Return(th, total_color(f.cs, f.material, f.surface_color,
                                  f.reflected_color, f.refracted_color))

\* canvas.set_color_at_pixel(x, y, color) of render and the step of its
\* loops; after the last pixel render returns the canvas and the caller
\* goes on to render_par
SerialSet ==
    /\ pc[0] = "set"
    /\ image' = set_color_at_pixel(image, pixel[0].x, pixel[0].y, color[0])
    /\ IF pixel[0].x + 1 < camera.hsize
       THEN /\ pixel' = [pixel EXCEPT ![0].x = @ + 1]
            /\ pc' = [pc EXCEPT ![0] = "ray"]
            /\ UNCHANGED <<phase, rows>>
       ELSE IF pixel[0].y + 1 < camera.vsize
       THEN /\ pixel' = [pixel EXCEPT ![0] = [x |-> 0, y |-> @.y + 1]]
            /\ pc' = [pc EXCEPT ![0] = "ray"]
            /\ UNCHANGED <<phase, rows>>
       ELSE /\ pixel' = [pixel EXCEPT ![0] = NoPixel]
            /\ pc' = [pc EXCEPT ![0] = "for_each"]
            /\ phase' = "render_par"
            /\ rows' = 0..(camera.vsize - 1)
    /\ UNCHANGED <<xsVars, callVars, sceneVars, ray, color, stack, canvas, mutex, jobs, writes>>

\* (0..self.vsize).into_par_iter().for_each: the closure of row y starts and
\* hands the pixels of the row to the inner for_each
StartRow(y) ==
    /\ phase = "render_par"
    /\ y \in rows
    /\ rows' = rows \ {y}
    /\ jobs' = jobs \cup {[x |-> x, y |-> y] : x \in 0..(camera.hsize - 1)}
    /\ UNCHANGED <<xsVars, callVars, sceneVars, phase, pc, pixel, ray, color, stack, image,
                   canvas, mutex, writes>>

\* a worker takes a pixel of the inner for_each
TakeJob(th, job) ==
    /\ th \in Workers
    /\ pc[th] = "idle"
    /\ job \in jobs
    /\ jobs' = jobs \ {job}
    /\ pixel' = [pixel EXCEPT ![th] = job]
    /\ pc' = [pc EXCEPT ![th] = "ray"]
    /\ UNCHANGED <<xsVars, callVars, sceneVars, phase, ray, color, stack, image, canvas, mutex,
                   rows, writes>>

\* a lock that does not wait for the mutex to be free
Lock_unguarded(th) ==
    /\ pc[th] = "lock"
    /\ mutex' = th
    /\ pc' = [pc EXCEPT ![th] = "write"]
    /\ UNCHANGED <<xsVars, callVars, sceneVars, phase, pixel, ray, color, stack, image, canvas,
                   rows, jobs, writes>>

\* canvas.lock().unwrap()
Lock(th) ==
    /\ pc[th] = "lock"
    /\ mutex = 0
    /\ mutex' = th
    /\ pc' = [pc EXCEPT ![th] = "write"]
    /\ UNCHANGED <<xsVars, callVars, sceneVars, phase, pixel, ray, color, stack, image, canvas,
                   rows, jobs, writes>>

\* a write of a color that the workers share instead of the closure's own
Write_shared(th) ==
    /\ pc[th] = "write"
    /\ canvas' = set_color_at_pixel(canvas, pixel[th].x, pixel[th].y, color[1])
    /\ writes' = [writes EXCEPT ![pixel[th].x, pixel[th].y] = @ + 1]
    /\ pc' = [pc EXCEPT ![th] = "unlock"]
    /\ UNCHANGED <<xsVars, callVars, sceneVars, phase, pixel, ray, color, stack, image, mutex,
                   rows, jobs>>

\* .set_color_at_pixel(x, y, color) through the guard
Write(th) ==
    /\ pc[th] = "write"
    /\ canvas' = set_color_at_pixel(canvas, pixel[th].x, pixel[th].y, color[th])
    /\ writes' = [writes EXCEPT ![pixel[th].x, pixel[th].y] = @ + 1]
    /\ pc' = [pc EXCEPT ![th] = "unlock"]
    /\ UNCHANGED <<xsVars, callVars, sceneVars, phase, pixel, ray, color, stack, image, mutex,
                   rows, jobs>>

\* a guard that is never dropped
Unlock_held(th) ==
    /\ pc[th] = "unlock"
    /\ mutex' = mutex
    /\ pc' = [pc EXCEPT ![th] = "idle"]
    /\ pixel' = [pixel EXCEPT ![th] = NoPixel]
    /\ ray' = [ray EXCEPT ![th] = NoRay]
    /\ color' = [color EXCEPT ![th] = BLACK]
    /\ UNCHANGED <<xsVars, callVars, sceneVars, phase, stack, image, canvas, rows, jobs,
                   writes>>

\* the guard is dropped at the end of the statement, and the closure ends:
\* its x, ray and color are gone
Unlock(th) ==
    /\ pc[th] = "unlock"
    /\ mutex' = 0
    /\ pc' = [pc EXCEPT ![th] = "idle"]
    /\ pixel' = [pixel EXCEPT ![th] = NoPixel]
    /\ ray' = [ray EXCEPT ![th] = NoRay]
    /\ color' = [color EXCEPT ![th] = BLACK]
    /\ UNCHANGED <<xsVars, callVars, sceneVars, phase, stack, image, canvas, rows, jobs,
                   writes>>

\* into_inner that does not wait for the workers that still hold a pixel
IntoInner_early ==
    /\ phase = "render_par"
    /\ rows = {}
    /\ jobs = {}
    /\ phase' = "done"
    /\ pc' = [pc EXCEPT ![0] = "returned"]
    /\ UNCHANGED <<xsVars, callVars, sceneVars, pixel, ray, color, stack, image, parVars>>

\* both for_each calls have returned: canvas.into_inner().unwrap()
IntoInner ==
    /\ phase = "render_par"
    /\ rows = {}
    /\ jobs = {}
    /\ \A th \in Workers : pc[th] = "idle"
    /\ phase' = "done"
    /\ pc' = [pc EXCEPT ![0] = "returned"]
    /\ UNCHANGED <<xsVars, callVars, sceneVars, pixel, ray, color, stack, image, parVars>>

ThreadStep(th) ==
    \/ RayForPixel(th)
    \/ ColorAt(th)
    \/ NoHit(th)
    \/ Shade(th)
    \/ Reflect(th)
    \/ Refract(th)
    \/ Total(th)
    \/ \E job \in jobs : TakeJob(th, job)
    \/ Lock(th)
    \/ Write(th)
    \/ Unlock(th)

NextRender ==
    \/ \E th \in Threads : RayForPixel(th)
    \/ \E th \in Threads : ColorAt(th)
    \/ \E th \in Threads : NoHit(th)
    \/ \E th \in Threads : Shade(th)
    \/ \E th \in Threads : Reflect(th)
    \/ \E th \in Threads : Refract(th)
    \/ \E th \in Threads : Total(th)
    \/ SerialSet
    \/ \E y \in rows : StartRow(y)
    \/ \E th \in Workers : \E job \in jobs : TakeJob(th, job)
    \/ \E th \in Workers : Lock(th)
    \/ \E th \in Workers : Write(th)
    \/ \E th \in Workers : Unlock(th)
    \/ IntoInner

\* the scene and the render stand still while the collection is under test
RenderIdle ==
    /\ world = World_new(<<SceneLight>>, <<>>, 0)
    /\ camera = Camera_new(1, 1, 20)
    /\ phase = "done"
    /\ pc = [th \in Threads |-> IF th = 0 THEN "returned" ELSE "idle"]
    /\ pixel = [th \in Threads |-> NoPixel]
    /\ ray = [th \in Threads |-> NoRay]
    /\ color = [th \in Threads |-> BLACK]
    /\ stack = [th \in Threads |-> <<>>]
    /\ image = Canvas_new(1, 1)
    /\ canvas = Canvas_new(1, 1)
    /\ mutex = 0
    /\ rows = {}
    /\ jobs = {}
    /\ writes = [x \in 0..MaxPixels, y \in 0..MaxPixels |-> 0]

\* no function is called on its own
CallIdle ==
    /\ fnCall = None
    /\ fnRet = Unset
    /\ heap = <<>>

InitXs == XsInit /\ RenderIdle /\ CallIdle

SpecXs == InitXs /\ [][NextXs]_vars

Init == InitRender /\ XsInit /\ CallIdle

Next == NextRender

Spec == Init /\ [][Next]_vars

\* the machine keeps running: while some thread or the runtime can take a
\* step, a step is taken
FairSpec == Spec /\ WF_vars(Next)

-----------------------------------------------------------------------------
(* Functions of the World, of ComputedIntersection, of Phong and of Color  *)
(* called on their own, each once, with arguments chosen at the start.     *)
(* Rays that graze a sphere at its pole meet it at a point of the axis,    *)
(* with an eye vector at a right angle to the normal.                      *)

\* the calls of World::color_at_with_reflection_limit.  The world holds a
\* sphere of radius 3 at the origin, alone or inside a glass sphere of radius
\* 5; the inner sphere is matte, a mirror, transparent only, or reflecting
\* and transparent with an index below or above that of glass.  The ray
\* grazes the inner sphere's pole (0, 0, 3), comes down the axis from
\* outside, or starts at the centre
ColorAtCalls ==
    LET Clear == [PhongDefault EXCEPT !.transparency = 90]
        Bubble == [Clear EXCEPT !.reflectiveness = 50]
        Dense == [Bubble EXCEPT !.refractive_index = 200]
        ShadeScenes ==
            UNION {{<<Sphere(0, 3, material)>>,
                    <<Sphere(0, 5, Glass), Sphere(0, 3, material)>>} :
                       material \in {Matte, Mirror, Clear, Bubble, Dense}}
        ShadeRays ==
            {Ray(Point(-2, 0, 3), Vector(1, 0, 0)),
             Ray(Point(0, 0, 20), Vector(0, 0, -1)),
             Ray(Point(0, 0, 0), Vector(0, 0, -1))}
    IN  {[fn |-> "color_at_with_reflection_limit",
          w |-> World_new(<<SceneLight>>, bodies, MaxLimit), ray |-> r,
          remaining_reflections |-> k, up_color |-> up, down_color |-> down] :
             bodies \in ShadeScenes, r \in ShadeRays, k \in 0..MaxLimit,
             up \in {BLACK, 600}, down \in {BLACK, 600}}

\* one call of World::color_at_with_reflection_limit; up_color and
\* down_color are what its two nested calls return when it makes them
ColorAtHit ==
    /\ fnCall.fn = "color_at_with_reflection_limit"
    /\ ~fnRet.done
    /\ \E sh \in {shading_of(fnCall.w, fnCall.ray)} :
         fnRet' = Returned(
             IF sh = None THEN [hit |-> FALSE, total_color |-> BLACK]
             ELSE
                 LET cs == sh[1].cs
                     material == sh[1].material
                     up == reflected_color_at(cs, material,
                                              fnCall.remaining_reflections)
                     down == refracted_color_at(cs, material,
                                                fnCall.remaining_reflections)
                     surface_color == surface_color_at(fnCall.w, cs)
                     reflected_color ==
                         IF up = None THEN BLACK
                         ELSE ColorMul(fnCall.up_color, material.reflectiveness)
                     refracted_color ==
                         IF down = None THEN BLACK
                         ELSE ColorMul(fnCall.down_color, material.transparency)
                 IN  [hit |-> TRUE, cs |-> cs, material |-> material,
                      reflected |-> up, refracted |-> down,
                      surface_color |-> surface_color,
                      reflected_color |-> reflected_color,
                      refracted_color |-> refracted_color,
                      total_color |->
                          total_color(cs, material, surface_color,
                                      reflected_color, refracted_color)])
    /\ UNCHANGED <<fnCall, heap, xsVars, renderVars>>

\* the calls of Intersection::to_computed followed by schlick, on
\* intersections made with Intersection::new at the pole (0, 0, 3) of a
\* sphere of radius 3: the ray comes down the axis, at unit speed or twice as
\* fast, grazes the pole, at unit speed or twice as fast, or comes up from
\* the centre
SchlickCalls ==
    LET PoleHits ==
            {[t |-> 17, ray |-> Ray(Point(0, 0, 20), Vector(0, 0, -1))],
             [t |-> 8, ray |-> Ray(Point(0, 0, 19), Vector(0, 0, -2))],
             [t |-> 2, ray |-> Ray(Point(-2, 0, 3), Vector(1, 0, 0))],
             [t |-> 1, ray |-> Ray(Point(-2, 0, 3), Vector(2, 0, 0))],
             [t |-> 3, ray |-> Ray(Point(0, 0, 0), Vector(0, 0, 1))]}
    IN  {[fn |-> "schlick",
          i |-> Intersection(h.t, Sphere(0, 3, Glass), h.ray),
          mu_from |-> mf, mu_to |-> mt] :
             h \in PoleHits, mf \in {100, 150, 200}, mt \in {100, 150, 200}}

\* i.to_computed(mu_from, mu_to).schlick()
Schlick ==
    /\ fnCall.fn = "schlick"
    /\ ~fnRet.done
    /\ \E cs \in {to_computed(fnCall.i, fnCall.mu_from, fnCall.mu_to)} :
         fnRet' = Returned([cs |-> cs, reflectance |-> schlick(cs)])
    /\ UNCHANGED <<fnCall, heap, xsVars, renderVars>>

\* the calls of World::transparency_factor and World::is_shadowed.  The
\* light stands at z = 26; the world holds up to two spheres of radius 2
\* that let a half or a quarter of the light through, each behind the
\* points (z = -6), around z = 10, around z = 18, touching the light from
\* behind (z = 28) or beyond it (z = 34); the point is in front of them all
\* (z = 0), at the centre of the sphere at 10, or on that sphere's far pole
ShadowCalls ==
    LET Half == [PhongDefault EXCEPT !.transparency = 50]
        Quarter == [PhongDefault EXCEPT !.transparency = 25]
        Occluders ==
            {Sphere(c, 2, material) :
                 c \in {-6, 10, 18, 28, 34}, material \in {Half, Quarter}}
        Bodies ==
            {<<>>} \cup {<<a>> : a \in Occluders}
                   \cup {<<a, b>> : a \in Occluders, b \in Occluders}
    IN  {[fn |-> f, w |-> World_new(<<SceneLight>>, bodies, MaxLimit),
          point |-> Point(0, 0, z)] :
             f \in {"transparency_factor", "is_shadowed"},
             bodies \in Bodies, z \in {0, 10, 12}}

\* w.transparency_factor(point)
TransparencyFactor ==
    /\ fnCall.fn = "transparency_factor"
    /\ ~fnRet.done
    /\ \E factor \in {transparency_factor(fnCall.w, fnCall.point)} :
         fnRet' = Returned(factor)
    /\ UNCHANGED <<fnCall, heap, xsVars, renderVars>>

\* w.is_shadowed(point)
IsShadowed ==
    /\ fnCall.fn = "is_shadowed"
    /\ ~fnRet.done
    /\ \E shadowed \in {is_shadowed(fnCall.w, fnCall.point)} :
         fnRet' = Returned(shadowed)
    /\ UNCHANGED <<fnCall, heap, xsVars, renderVars>>

\* the calls of World::surface_color_at: a world of no, one or two lights, on
\* the axis in front of the matte sphere and behind it, with or without a
\* half-transparent sphere between the matte one and the front light; cs is
\* the hit of a ray that comes down the axis or starts at the centre
SurfaceCalls ==
    LET BackLight == [position |-> Point(0, 0, -26), intensity |-> 1000]
        Lights ==
            {<<>>, <<SceneLight>>, <<BackLight>>, <<SceneLight, BackLight>>,
             <<BackLight, SceneLight>>}
        Veil == Sphere(14, 2, [PhongDefault EXCEPT !.transparency = 50])
        Rays ==
            {Ray(Point(0, 0, 10), Vector(0, 0, -1)),
             Ray(Point(0, 0, 0), Vector(0, 0, -1))}
    IN  {[fn |-> "surface_color_at",
          w |-> World_new(lights, bodies, MaxLimit),
          cs |-> shading_of(World_new(lights, bodies, MaxLimit), r)[1].cs] :
             lights \in Lights, bodies \in {<<NearMatte>>, <<NearMatte, Veil>>},
             r \in Rays}

\* w.surface_color_at(&cs): the assert_eq on the number of lights fails and
\* panics, or the colour is returned
SurfaceColorAt ==
    /\ fnCall.fn = "surface_color_at"
    /\ ~fnRet.done
    /\ IF Len(fnCall.w.point_lights) # 1
       THEN fnRet' = Returned([panicked |-> TRUE])
       ELSE \E surface_color \in {surface_color_at(fnCall.w, fnCall.cs)} :
                fnRet' = Returned([panicked |-> FALSE,
                                   color |-> surface_color])
    /\ UNCHANGED <<fnCall, heap, xsVars, renderVars>>

\* the calls of Phong::lighting at the pole (0, 0, 4) of the matte sphere:
\* the light in front of the surface or behind it, the eye on the light's
\* side, on the other side or at a right angle, the normal up or down, the
\* point fully shadowed, half lit or fully lit, the light white or dimmed
LightingCalls ==
    {[fn |-> "lighting", material |-> Matte,
      light |-> [position |-> Point(0, 0, z), intensity |-> intensity],
      point |-> Point(0, 0, 4), eyev |-> eyev, normalv |-> normalv,
      transparency_factor |-> factor] :
         z \in {26, -26}, intensity \in {1000, 500},
         eyev \in {Vector(0, 0, 1), Vector(0, 0, -1), Vector(1, 0, 0)},
         normalv \in {Vector(0, 0, 1), Vector(0, 0, -1)},
         factor \in {0, 5000, 10000}}

\* material.lighting(&body, light, point, eyev, normalv, transparency_factor)
Lighting ==
    /\ fnCall.fn = "lighting"
    /\ ~fnRet.done
    /\ \E c \in {lighting(fnCall.material, fnCall.light, fnCall.point,
                          fnCall.eyev, fnCall.normalv,
                          fnCall.transparency_factor)} :
         fnRet' = Returned(c)
    /\ UNCHANGED <<fnCall, heap, xsVars, renderVars>>

\* the calls of to_rgb_string: every channel is below zero by a half or by
\* less than a 255th, zero, a half, one, or above one
RgbCalls ==
    {[fn |-> "to_rgb_string", c |-> Color_new(red, green, blue)] :
         red \in {-500, -3, 0, 500, 1000, 1100},
         green \in {-500, -3, 0, 500, 1000, 1100},
         blue \in {-500, -3, 0, 500, 1000, 1100}}

\* c.to_rgb_string()
ToRgbString ==
    /\ fnCall.fn = "to_rgb_string"
    /\ ~fnRet.done
    /\ fnRet' = Returned(to_rgb_string(fnCall.c))
    /\ UNCHANGED <<fnCall, heap, xsVars, renderVars>>

\* the calls of the four operators of Tuple: both operands are a point or a
\* vector, the coordinates those of the tests sub_point_point_works and its
\* neighbours
TupleCalls ==
    LET Tuples ==
            {Point(3, 2, 1), Vector(3, 2, 1), Point(5, 6, 7), Vector(5, 6, 7)}
    IN  {[fn |-> f, a |-> a, b |-> b] :
             f \in {"add", "sub", "add_assign", "sub_assign"},
             a \in Tuples, b \in Tuples}

\* a + b
Add ==
    /\ fnCall.fn = "add"
    /\ ~fnRet.done
    /\ fnRet' = Returned(TupleAdd(fnCall.a, fnCall.b))
    /\ UNCHANGED <<fnCall, heap, xsVars, renderVars>>

\* a - b
Sub ==
    /\ fnCall.fn = "sub"
    /\ ~fnRet.done
    /\ fnRet' = Returned(TupleSub(fnCall.a, fnCall.b))
    /\ UNCHANGED <<fnCall, heap, xsVars, renderVars>>

\* a += b; what is returned is a afterwards
AddAssign ==
    /\ fnCall.fn = "add_assign"
    /\ ~fnRet.done
    /\ fnRet' = Returned(TupleAddAssign(fnCall.a, fnCall.b))
    /\ UNCHANGED <<fnCall, heap, xsVars, renderVars>>

\* a -= b; what is returned is a afterwards
SubAssign ==
    /\ fnCall.fn = "sub_assign"
    /\ ~fnRet.done
    /\ fnRet' = Returned(TupleSubAssign(fnCall.a, fnCall.b))
    /\ UNCHANGED <<fnCall, heap, xsVars, renderVars>>

\* Path::parent: the path without its last component, None for a path that
\* has no component (the empty path, the root)
Path_parent(path) ==
    IF path.components = <<>> THEN None
    ELSE Some([path EXCEPT
                   !.components = SubSeq(path.components, 1,
                                         Len(path.components) - 1)])

\* the calls of save_as_ppm: the empty path, the root, a file name, a file
\* in a directory, relative and absolute, together with what the file system
\* answers to create_dir_all and to write
SaveCalls ==
    {[fn |-> "save_as_ppm", save_to |-> [root |-> root, components |-> cs],
      create_dir_all |-> dir, write |-> wr] :
         root \in BOOLEAN,
         cs \in {<<>>, <<"image.ppm">>, <<"images", "image.ppm">>},
         dir \in {"Ok", "Err"}, wr \in {"Ok", "Err"}}

\* canvas.save_as_ppm(save_to): parent().unwrap() and
\* create_dir_all(prefix).unwrap() panic on None and on Err, the result of
\* fs::write is returned.  create_dir_all of the empty path does nothing and
\* is Ok
SaveAsPpm ==
    /\ fnCall.fn = "save_as_ppm"
    /\ ~fnRet.done
    /\ LET prefix == Path_parent(fnCall.save_to)
       IN  fnRet' = Returned(
               IF prefix = None THEN "panic"
               ELSE IF /\ fnCall.create_dir_all = "Err"
                       /\ ~(prefix[1].components = <<>> /\ ~prefix[1].root)
                    THEN "panic"
               ELSE fnCall.write)
    /\ UNCHANGED <<fnCall, heap, xsVars, renderVars>>

\* the calls of Striped's color_at_in_pattern_space: the stripes of the test
\* stripe_works, white and black, at points on both sides of x = 0
StripedCalls ==
    {[fn |-> "color_at_in_pattern_space",
      pattern |-> [color_a |-> 1000, color_b |-> BLACK],
      position |-> Point(x, y, z)] :
         x \in {-2100, -2000, -1100, -1000, -100, -1, 0, 900, 1000, 1500,
                2000, 2900},
         y \in {-1500, 0, 1000}, z \in {-1500, 0, 2000}}

\* stripe.color_at_in_pattern_space(position)
StripedColorAt ==
    /\ fnCall.fn = "color_at_in_pattern_space"
    /\ ~fnRet.done
    /\ fnRet' = Returned(Striped_color_at_in_pattern_space(fnCall.pattern,
                                                          fnCall.position))
    /\ UNCHANGED <<fnCall, heap, xsVars, renderVars>>

\* the calls that ask both shadow queries of one world and point: one light
\* on the axis at z = 26, up to two opaque spheres of radius 2 (transparency
\* 0), one of which ends exactly at the light (centre 28) and one exactly at
\* the point z = 12 (centre 10)
OpaqueCalls ==
    LET Occluders == {Sphere(c, 2, Matte) : c \in {-6, 10, 18, 28, 34}}
        Bodies ==
            {<<>>} \cup {<<a>> : a \in Occluders}
                   \cup {<<a, b>> : a \in Occluders, b \in Occluders}
    IN  {[fn |-> "shadow_queries",
          w |-> World_new(<<SceneLight>>, bodies, MaxLimit),
          point |-> Point(0, 0, z)] :
             bodies \in Bodies, z \in {0, 10, 12}}

\* w.is_shadowed(point) and w.transparency_factor(point) on the same world
ShadowQueries ==
    /\ fnCall.fn = "shadow_queries"
    /\ ~fnRet.done
    /\ \E shadowed \in {is_shadowed(fnCall.w, fnCall.point)} :
       \E factor \in {transparency_factor(fnCall.w, fnCall.point)} :
         fnRet' = Returned([shadowed |-> shadowed, factor |-> factor])
    /\ UNCHANGED <<fnCall, heap, xsVars, renderVars>>

\* f64 values of an intersect_in_object_space result: finite ones in
\* hundredths, the two infinities, and NaN
Finite(n) == [kind |-> "finite", v |-> n]
Infinity(sign) == [kind |-> "inf", v |-> sign]
NaN == [kind |-> "nan", v |-> 0]

\* the f64 quotient n / d of two finite values: 0 / 0 is NaN, n / 0 is an
\* infinity of n's sign
f64_div(n, d) ==
    IF d = 0
    THEN IF n = 0 THEN NaN ELSE Infinity(IF n > 0 THEN 1 ELSE -1)
    ELSE Finite((n * 100) \div d)

\* f64::sqrt of n >= 0, in hundredths
f64_sqrt(n) ==
    CHOOSE k \in (100 * sqrt(n))..(100 * sqrt(n) + 100) :
        k * k <= n * 10000 /\ (k + 1) * (k + 1) > n * 10000

abs(n) == IF n < 0 THEN -n ELSE n

\* a.partial_cmp(b) == Some(Less) for two f64 that are not NaN
f64_lt(a, b) ==
    IF a.kind = "inf" THEN a.v < 0 /\ b # a
    ELSE IF b.kind = "inf" THEN b.v > 0
    ELSE a.v < b.v

\* the sorted vector with x put in after the elements not above it
RECURSIVE f64_insert(_, _)
f64_insert(vec, x) ==
    IF vec = <<>> THEN <<x>>
    ELSE IF f64_lt(x, Head(vec)) THEN <<x>> \o vec
    ELSE <<Head(vec)>> \o f64_insert(Tail(vec), x)

RECURSIVE f64_sorted(_)
f64_sorted(res) ==
    IF res = <<>> THEN <<>>
    ELSE f64_insert(f64_sorted(Tail(res)), Head(res))

\* res.sort_by(|a, b| a.partial_cmp(b).unwrap()): a vector of two or more
\* elements compares every element at least once, and partial_cmp is None
\* when either side is NaN, so the unwrap panics
sort_by_partial_cmp(res) ==
    IF Len(res) >= 2 /\ \E k \in 1..Len(res) : res[k] = NaN
    THEN [panicked |-> TRUE, res |-> <<>>]
    ELSE [panicked |-> FALSE, res |-> f64_sorted(res)]

\* check_cap of DoubleCone::intersect_in_object_space, t in hundredths
check_cap(r, t) ==
    LET x == r.origin.x * 100 + r.direction.x * t
        y == r.origin.y * 100 + r.direction.y * t
        z == r.origin.z * 100 + r.direction.z * t
    IN  x * x + z * z <= y * y

\* intersect_caps of DoubleCone::intersect_in_object_space
intersect_caps(dcone, r) ==
    IF ~dcone.is_closed \/ abs(r.direction.y) < EPSILON THEN <<>>
    ELSE LET tmin == ((-dcone.height * 50) - r.origin.y * 100)
                         \div r.direction.y
             tmax == ((dcone.height * 50) - r.origin.y * 100)
                         \div r.direction.y
         IN  (IF check_cap(r, tmin) THEN <<Finite(tmin)>> ELSE <<>>)
                 \o (IF check_cap(r, tmax) THEN <<Finite(tmax)>> ELSE <<>>)

\* DoubleCone::intersect_in_object_space
DoubleCone_intersect_in_object_space(dcone, r) ==
    LET o == r.origin
        d == r.direction
        a == d.x * d.x - d.y * d.y + d.z * d.z
        b == 2 * (o.x * d.x - o.y * d.y + o.z * d.z)
        c == o.x * o.x - o.y * o.y + o.z * o.z
        disc == b * b - 4 * a * c
        e1 == ((-b * 100) - f64_sqrt(disc)) \div (2 * a)
        e2 == ((-b * 100) + f64_sqrt(disc)) \div (2 * a)
        d1 == IF e1 > e2 THEN e2 ELSE e1
        d2 == IF e1 > e2 THEN e1 ELSE e2
        within(t) ==
            /\ o.y * 100 + t * d.y > -dcone.height * 50
            /\ o.y * 100 + t * d.y < dcone.height * 50
        walls ==
            IF abs(a) < EPSILON THEN <<f64_div(-c, 2 * b)>>
            ELSE IF disc < 0 THEN <<>>
            ELSE (IF within(d1) THEN <<Finite(d1)>> ELSE <<>>)
                     \o (IF within(d2) THEN <<Finite(d2)>> ELSE <<>>)
    IN  sort_by_partial_cmp(walls \o intersect_caps(dcone, r))

\* the calls of DoubleCone::intersect_in_object_space: cones of height 2 and
\* 4, open and closed, and rays in the plane z = 0 whose origin and
\* direction have integer coordinates
ConeCalls ==
    LET Directions ==
            {Vector(dx, dy, 0) : dx \in -1..1, dy \in -1..1}
                \ {Vector(0, 0, 0)}
    IN  {[fn |-> "intersect_in_object_space",
          dcone |-> [height |-> h, is_closed |-> closed],
          ray |-> Ray(Point(ox, oy, 0), direction)] :
             h \in {2, 4}, closed \in BOOLEAN, ox \in -2..2, oy \in -2..2,
             direction \in Directions}

\* dcone.intersect_in_object_space(&ray)
ConeIntersect ==
    /\ fnCall.fn = "intersect_in_object_space"
    /\ ~fnRet.done
    /\ \E result \in
           {DoubleCone_intersect_in_object_space(fnCall.dcone, fnCall.ray)} :
         fnRet' = Returned(result)
    /\ UNCHANGED <<fnCall, heap, xsVars, renderVars>>

NextCall ==
    \/ ColorAtHit
    \/ Schlick
    \/ TransparencyFactor
    \/ IsShadowed
    \/ SurfaceColorAt
    \/ Lighting
    \/ ToRgbString
    \/ Add
    \/ Sub
    \/ AddAssign
    \/ SubAssign
    \/ SaveAsPpm
    \/ StripedColorAt
    \/ ShadowQueries
    \/ ConeIntersect

InitCall ==
    /\ fnCall \in ColorAtCalls \cup SchlickCalls \cup ShadowCalls
                   \cup SurfaceCalls \cup LightingCalls \cup RgbCalls
                   \cup TupleCalls
                   \cup SaveCalls
                   \cup StripedCalls
                   \cup OpaqueCalls
                   \cup ConeCalls
    /\ fnRet = Unset
    /\ heap = <<>>
    /\ XsInit
    /\ RenderIdle

SpecCall == InitCall /\ [][NextCall]_vars

-----------------------------------------------------------------------------
(* Groups.  A Matrix<4> here is a uniform scaling followed by a translation *)
(* along x: the point x goes to (sn * x + d) / q, and y and z are scaled by *)
(* sn / q.  Rays run along z through a point of the x axis; x, z and t are  *)
(* counted in quarters.                                                     *)

\* most Groups made, and most items pushed into one Group
MaxGroups == 2
MaxItems == 2

RECURSIVE gcd(_, _)
gcd(a, b) == IF b = 0 THEN a ELSE gcd(b, a % b)

\* Matrix::new, the entries in lowest terms
Matrix_new(sn, d, q) ==
    LET f == gcd(gcd(sn, abs(d)), q)
    IN  [sn |-> sn \div f, d |-> d \div f, q |-> q \div f]

Identity == Matrix_new(1, 0, 1)
Translation(x) == Matrix_new(1, x, 1)
Scaling(x) == Matrix_new(x, 0, 1)

\* Matrix::inverse
inverse(m) == Matrix_new(m.q, -m.d, m.sn)

\* Matrix::cross, the product a * b: b is applied first
cross(a, b) == Matrix_new(a.sn * b.sn, a.sn * b.d + a.d * b.q, a.q * b.q)

\* Arc::clone: one more owning (strong) reference to the Group at index g
Arc_clone(g) == [strong |-> TRUE, to |-> g]

\* what a call is left with when its recursion never ends
StackOverflow == [overflow |-> TRUE]

\* Group::transform, depth calls deep at most
RECURSIVE Group_transform_within(_, _, _)
Group_transform_within(h, g, depth) ==
    IF depth = 0 THEN StackOverflow
    ELSE IF h[g].parent # None
    THEN LET par == Group_transform_within(h, h[g].parent[1].to, depth - 1)
         IN  IF par = StackOverflow THEN StackOverflow
             ELSE cross(inverse(par), h[g].transform)
    ELSE h[g].transform

\* Group::transform: a chain of parents without a cycle is no longer than
\* the heap
Group_transform(h, g) == Group_transform_within(h, g, Len(h))

\* Cube::new
Cube_new(m) == [parent |-> None, transform |-> m]

\* Cube::transform
Cube_transform(h, body) ==
    IF body.parent # None
    THEN LET par == Group_transform(h, body.parent[1].to)
         IN  IF par = StackOverflow THEN StackOverflow
             ELSE cross(inverse(par), body.transform)
    ELSE body.transform

\* Cube::intersect_in_object_space behind Intersectable::intersect, for the
\* world ray r along z.  The object-space ray has direction.x = 0 and
\* direction.y = 0, so check_axis multiplies the x and y numerators by
\* INFINITY: the ray passes the x slab when -1 - origin.x < 0 < 1 - origin.x
\* and always passes the y slab (origin.y = 0); tmin and tmax are then those
\* of the z slab.  The rays of the model never lie in a face of a cube.
Cube_intersect(h, body, r) ==
    LET m == Cube_transform(h, body)
    IN  IF m = StackOverflow THEN StackOverflow
        ELSE IF (-4 * m.sn) - (m.q * r.x - 4 * m.d) < 0
                 /\ 0 < (4 * m.sn) - (m.q * r.x - 4 * m.d)
        THEN [data |->
                 <<Intersection(((-4 * m.sn) - m.q * r.z) \div m.q, body, r),
                   Intersection(((4 * m.sn) - m.q * r.z) \div m.q, body, r)>>]
        ELSE [data |-> <<>>]

\* the loop of Group::intersect from item k on, and BodyOrGroup::intersect
\* for each item; depth bounds the nesting of Group::intersect calls
RECURSIVE Group_intersect_from(_, _, _, _, _)
Group_intersect_from(h, g, r, k, depth) ==
    IF depth = 0 THEN StackOverflow
    ELSE IF k > Len(h[g].items) THEN [data |-> <<>>]
    ELSE LET item == h[g].items[k]
             x == IF item.kind = "Body" THEN Cube_intersect(h, item.body, r)
                  ELSE LET xs == Group_intersect_from(h, item.group.to, r, 1,
                                                      depth - 1)
                       IN  IF xs = StackOverflow THEN StackOverflow
                           ELSE [data |-> sort_by(xs.data)]
             rest == Group_intersect_from(h, g, r, k + 1, depth)
         IN  IF x = StackOverflow \/ rest = StackOverflow THEN StackOverflow
             ELSE [data |-> extend(x.data, rest.data)]

\* Group::intersect: a nesting of groups without a cycle is no deeper than
\* the heap
Group_intersect(h, g, r) ==
    LET xs == Group_intersect_from(h, g, r, 1, Len(h))
    IN  IF xs = StackOverflow THEN StackOverflow
        ELSE [data |-> sort_by(xs.data)]

\* Group::new(transform, vec![])
GroupNew(m) ==
    /\ Len(heap) < MaxGroups
    /\ heap' = Append(heap, [parent |-> None, transform |-> m, items |-> <<>>])
    /\ fnRet' = Unset
    /\ UNCHANGED <<fnCall, xsVars, renderVars>>

\* Group::add_shape(body, parent)
AddShape(body, g) ==
    /\ Len(heap[g].items) < MaxItems
    /\ heap' =
           [heap EXCEPT ![g].items =
               Append(@, [kind |-> "Body",
                          body |-> [body EXCEPT
                                       !.parent = Some(Arc_clone(g))]])]
    /\ fnRet' = Unset
    /\ UNCHANGED <<fnCall, xsVars, renderVars>>

\* Group::add_group(grp, parent)
AddGroup(grp, g) ==
    /\ Len(heap[g].items) < MaxItems
    /\ \E set \in {[heap EXCEPT ![grp].parent = Some(Arc_clone(g))]} :
         heap' = [set EXCEPT ![g].items =
                     Append(@, [kind |-> "Group",
                                group |-> [strong |-> TRUE, to |-> grp]])]
    /\ fnRet' = Unset
    /\ UNCHANGED <<fnCall, xsVars, renderVars>>

\* Group::intersect(&g, &r)
GroupIntersect(g, r) ==
    /\ \E xs \in {Group_intersect(heap, g, r)} :
         fnRet' = Returned([fn |-> "Group::intersect", of |-> g, r |-> r,
                            xs |-> xs])
    /\ UNCHANGED <<fnCall, heap, xsVars, renderVars>>

\* w.intersect(r)
WorldIntersect(w, r) ==
    /\ \E xs \in {intersect(w, r)} :
         fnRet' = Returned([fn |-> "World::intersect", of |-> w, r |-> r,
                            xs |-> [data |-> xs]])
    /\ UNCHANGED <<fnCall, heap, xsVars, renderVars>>

\* the calls on groups and worlds: groups that scale by 2 or not at all,
\* cubes at the origin or 5 to the right, rays along z through x = 0, 5 and
\* 10, and worlds of up to two of the spheres of the scenes
NextGroup ==
    LET Rays == {[x |-> x, z |-> -40] : x \in {0, 20, 40}}
        Spheres == {Sphere(c, 2, Matte) : c \in {0, 2, 10}}
        Bodies ==
            {<<>>} \cup {<<a>> : a \in Spheres}
                   \cup {<<a, b>> : a \in Spheres, b \in Spheres}
    IN  \/ \E m \in {Identity, Scaling(2)} : GroupNew(m)
        \/ \E m \in {Identity, Translation(5)}, g \in 1..Len(heap) :
               AddShape(Cube_new(m), g)
        \/ \E grp \in 1..Len(heap), g \in 1..Len(heap) : AddGroup(grp, g)
        \/ \E g \in 1..Len(heap), r \in Rays : GroupIntersect(g, r)
        \/ \E bodies \in Bodies, z \in {-10, 0} :
               WorldIntersect(World_new(<<SceneLight>>, bodies, MaxLimit),
                              Ray(Point(0, 0, z), Vector(0, 0, 1)))

InitGroup == XsInit /\ RenderIdle /\ CallIdle

SpecGroup == InitGroup /\ [][NextGroup]_vars

-----------------------------------------------------------------------------
(* Claims about Intersections *)

IsSorted(d) == \A i, j \in 1..Len(d) : i < j => d[i].t <= d[j].t

Positive(d) == {k \in 1..Len(d) : d[k].t > 0}

\* v is what hit() has to return on d: nothing when no t is positive, else
\* an element of d whose t is the least of the positive ones
SmallestPositive(d, v) ==
    IF Positive(d) = {} THEN v = None
    ELSE /\ v # None
         /\ \E k \in Positive(d) : d[k] = v[1]
         /\ \A k \in Positive(d) : v[1].t <= d[k].t

\* C6: on a collection sorted ascending by t, hit() returns the intersection
\* with the smallest strictly positive t, and None when every t is <= 0; an
\* intersection at t = 0 is never the hit.
C6_HitOfSorted ==
    (hitRes.done /\ IsSorted(data)) =>
        /\ SmallestPositive(data, hitRes.value)
        /\ hitRes.value # None => hitRes.value[1].t # 0

\* a sorted collection with an intersection behind the origin, one at t = 0
\* and one ahead, on which hit() has returned the one ahead
C6_Witness ==
    /\ hitRes.done
    /\ IsSorted(data)
    /\ Len(data) = 3
    /\ data[1].t < 0 /\ data[2].t = 0 /\ data[3].t > 0
    /\ hitRes.value = Some(data[3])

\* a sorted collection with no positive t, on which hit() has returned None
C6_WitnessNone ==
    /\ hitRes.done
    /\ IsSorted(data)
    /\ Len(data) = 2
    /\ data[2].t = 0
    /\ hitRes.value = None

\* C7: on every collection, sorted or not, hit() returns the intersection
\* with the smallest strictly positive t, and nothing when all t <= 0.
C7_HitOfAny ==
    hitRes.done => SmallestPositive(data, hitRes.value)

\* an unsorted collection on which hit() has returned
C7_Witness ==
    /\ hitRes.done
    /\ ~IsSorted(data)
    /\ hitRes.value # None

\* the list of bodies entered and not yet left after the intersections of s:
\* a body that is in the list leaves it, any other joins it at the end
Toggle(list, body) ==
    IF \E j \in 1..Len(list) : list[j] = body
    THEN SelectSeq(list, LAMBDA b : b # body)
    ELSE Append(list, body)

RECURSIVE Entered(_)
Entered(s) ==
    IF s = <<>> THEN <<>>
    ELSE Toggle(Entered(SubSeq(s, 1, Len(s) - 1)), Last(s).body)

\* the refractive index of the last body of the list, 1.0 when it is empty
IndexOfLast(list) ==
    IF list = <<>> THEN 100 ELSE Last(list).material.refractive_index

\* where the hit stands in a collection that has one
HitAt(d) == CHOOSE k \in Positive(d) : \A l \in Positive(d) : k <= l

\* the intersections of the three nested spheres of mu_shift_works, sorted
NestedSorted ==
    sort_by(Body_intersect(NestedS4, NestedRay)
                \o Body_intersect(NestedSdown, NestedRay)
                \o Body_intersect(NestedSup, NestedRay))

\* C8: on a collection sorted by t, get_mu_shift(hit()) returns as mu_from
\* the refractive index of the last body entered and not left before the
\* hit (1.0 when there is none) and as mu_to that index once the hit's body
\* has been toggled (1.0 when the list is then empty); the intersections
\* behind the hit play no part.  The first hit on the three nested spheres
\* of indices 1.5, 2.0 and 2.5 gives (1.0, 1.5).
C8_MuShift ==
    (muRes.done /\ IsSorted(data)) =>
        LET before == Entered(SubSeq(data, 1, HitAt(data) - 1))
            after == Toggle(before, data[HitAt(data)].body)
        IN  /\ muRes.value = <<IndexOfLast(before), IndexOfLast(after)>>
            /\ muRes.value =
                   get_mu_shift(SubSeq(data, 1, HitAt(data)), hitRes.value[1])
            /\ data = NestedSorted => muRes.value = <<100, 150>>

\* get_mu_shift has returned on the sorted intersections of the nested spheres
C8_Witness ==
    /\ muRes.done
    /\ data = NestedSorted
    /\ Len(data) = 6
    /\ muRes.value = <<100, 150>>

\* get_mu_shift has returned for a hit inside a body: the ray starts inside
\* one body, hits a second one, and a further intersection lies behind the hit
C8_WitnessInside ==
    /\ muRes.done
    /\ IsSorted(data)
    /\ Len(data) = 3
    /\ HitAt(data) = 2
    /\ data[1].body # data[2].body
    /\ muRes.value[1] # 100
    /\ muRes.value[2] # muRes.value[1]

-----------------------------------------------------------------------------
(* Claims about the render *)

Pixels == {p \in (0..MaxPixels) \X (0..MaxPixels) :
              p[1] < camera.hsize /\ p[2] < camera.vsize}

\* C1: for the same World and Camera the canvas of render_par is, pixel for
\* pixel, the canvas of render, whatever the interleaving of the workers: in
\* both, pixel (x, y) holds world.color_at(ray_for_pixel(x, y)).
C1_ParEqualsSerial ==
    phase = "done" =>
        /\ canvas = image
        /\ \A p \in Pixels :
              /\ canvas.frame[p[2]][p[1]]
                     = color_at(world, ray_for_pixel(camera, p[1], p[2]))
              /\ image.frame[p[2]][p[1]]
                     = color_at(world, ray_for_pixel(camera, p[1], p[2]))

\* both renders have returned an image of three pixels, lit in the middle
\* and black at the sides, of a world that reflects and refracts
C1_Witness ==
    /\ phase = "done"
    /\ camera.hsize = 3
    /\ world.reflection_limit > 0
    /\ canvas.frame[0][1] # BLACK
    /\ canvas.frame[0][0] = BLACK
    /\ canvas.frame[0][1] # surface_color_at(world,
                                 shading_of(world, ray_for_pixel(camera, 1, 0))[1].cs)

Holders == {th \in Workers : pc[th] \in {"write", "unlock"}}

\* C2: in render_par every write to the shared canvas is made by the worker
\* that holds the canvas mutex, so no two workers are inside
\* set_color_at_pixel at once; the mutex is held for that one write only and
\* never by a worker that computes ray_for_pixel or color_at.
C2_WritesUnderMutex ==
    /\ \A th \in Workers : pc[th] \in {"write", "unlock"} <=> mutex = th
    /\ Cardinality(Holders) <= 1
    /\ mutex # 0 => /\ mutex \in Workers
                    /\ pc[mutex] \notin {"idle", "ray", "color", "shade", "lock"}
                    /\ stack[mutex] = <<>>

\* a worker is inside set_color_at_pixel while the other waits for the mutex
C2_Witness ==
    \E th, other \in Workers :
        /\ th # other
        /\ pc[th] = "write"
        /\ mutex = th
        /\ pc[other] = "lock"

\* C3: when render_par hands back its canvas every index (x, y) with
\* x < hsize and y < vsize has been written exactly once, no index outside
\* that range was ever written, and no worker writes after the return: none
\* holds a pixel or the mutex, and none is left to be handed out.
C3_WrittenOnce ==
    /\ \A x, y \in 0..MaxPixels :
          /\ writes[x, y] <= 1
          /\ <<x, y>> \notin Pixels => writes[x, y] = 0
    /\ phase = "done" =>
          /\ \A p \in Pixels : writes[p[1], p[2]] = 1
          /\ \A th \in Workers : pc[th] = "idle"
          /\ rows = {}
          /\ jobs = {}
          /\ mutex = 0

\* render_par has returned an image of more than one row
C3_Witness ==
    /\ phase = "done"
    /\ camera.vsize > 1
    /\ \A p \in Pixels : writes[p[1], p[2]] = 1

\* C4: with reflection_limit = k no more than k + 1 invocations of
\* color_at_with_reflection_limit are nested: the outermost has the remaining
\* count k, and every call made by reflected_color_at or refracted_color_at
\* passes one less than its caller's count and is made only when that count
\* is positive.
C4_RecursionBound ==
    \A th \in Threads :
        /\ Len(stack[th]) <= world.reflection_limit + 1
        /\ stack[th] # <<>> => stack[th][1].remaining = world.reflection_limit
        /\ \A n \in 2..Len(stack[th]) :
              /\ stack[th][n - 1].at \in {"reflected", "refracted"}
              /\ stack[th][n - 1].remaining > 0
              /\ stack[th][n].remaining = stack[th][n - 1].remaining - 1

\* the deepest nesting: k + 1 invocations for k = 2, the innermost called by
\* refracted_color_at with no reflection left
C4_Witness ==
    \E th \in Threads :
        /\ world.reflection_limit = 2
        /\ Len(stack[th]) = 3
        /\ stack[th][2].at = "refracted"
        /\ stack[th][3].remaining = 0

C9_NoHitIsBlack ==
    [][\A th \in Threads :
          (/\ pc[th] = "shade"
           /\ Top(th).at = "intersect"
           /\ hit(intersect(world, Top(th).ray)) = None
           /\ stack'[th] # stack[th])
          => /\ stack'[th] = ReturnTo(th, BLACK)
             /\ Len(stack'[th]) = Len(stack[th]) - 1
             /\ (Len(stack[th]) = 1 =>
                    color'[th] = BLACK /\ pc'[th] = AfterColor(th))
             /\ color_at_with_reflection_limit(
                    world, Top(th).ray, Top(th).remaining) = BLACK]_vars

\* color_at has returned black for a ray that starts in front of every body
\* of the world
C9_Witness ==
    \E th \in Threads :
        /\ pc[th] \in {"set", "lock"}
        /\ world.bodies # <<>>
        /\ intersect(world, ray[th]) # <<>>
        /\ hit(intersect(world, ray[th])) = None
        /\ color[th] = BLACK

\* C10: an invocation with the remaining count 0 casts no ray: it has no
\* callee, its reflected and refracted colors are black whatever the
\* material, and its result is surface_color_at of its hit; so color_at of a
\* World with reflection_limit = 0 is surface_color_at of the hit.
C10_ExhaustedIsSurface ==
    \A th \in Threads :
        /\ \A n \in 1..Len(stack[th]) :
              LET f == stack[th][n]
              IN  f.remaining = 0 =>
                      /\ n = Len(stack[th])
                      /\ f.at \in {"intersect", "reflect", "refract", "total"}
                      /\ f.reflected_color = BLACK
                      /\ f.refracted_color = BLACK
                      /\ f.at # "intersect" =>
                             /\ f.surface_color = surface_color_at(world, f.cs)
                             /\ color_at_with_reflection_limit(world, f.ray, 0)
                                    = f.surface_color
                             /\ total_color(f.cs, f.material, f.surface_color,
                                            f.reflected_color, f.refracted_color)
                                    = f.surface_color
        /\ (/\ world.reflection_limit = 0
            /\ pc[th] \in {"set", "lock", "write", "unlock"}
            /\ shading_of(world, ray[th]) # None)
           => color[th]
                  = surface_color_at(world, shading_of(world, ray[th])[1].cs)

\* color_at has returned the surface color of a sphere that reflects and
\* refracts, in a World with reflection_limit = 0 that holds a mirror too
C10_Witness ==
    \E th \in Threads :
        /\ world.reflection_limit = 0
        /\ pc[th] \in {"set", "lock"}
        /\ Len(world.bodies) > 1
        /\ shading_of(world, ray[th]) # None
        /\ shading_of(world, ray[th])[1].material = Glass
        /\ color[th] # BLACK


-----------------------------------------------------------------------------
(* Claims about the colour of one hit *)

\* sin2_t of the hit of a returned color_at_with_reflection_limit call is
\* above 1: mu_from^2 * (1 - cos_i^2) > mu_to^2
HitIsTotalInternal ==
    /\ fnCall.fn = "color_at_with_reflection_limit"
    /\ fnRet.done
    /\ fnRet.value.hit
    /\ LET cs == fnRet.value.cs
           cos_i == dot(cs.eyev, cs.normalv)
       IN  cs.mu_from * cs.mu_from * (1 - cos_i * cos_i)
               > cs.mu_to * cs.mu_to

\* C11: on total internal reflection, at a hit on a material with
\* transparency # 0 and with remaining reflections, refracted_color_at casts
\* no ray and gives black; reflected_color_at still casts the ray from
\* over_point along reflectv when reflectiveness # 0, and the colour it gets
\* back, times reflectiveness, is added whole to the surface colour
C11_TotalInternalReflection ==
    (/\ HitIsTotalInternal
     /\ fnRet.value.material.transparency # 0
     /\ fnCall.remaining_reflections > 0)
    => /\ fnRet.value.refracted = None
       /\ fnRet.value.refracted_color = BLACK
       /\ fnRet.value.material.reflectiveness # 0
          => /\ fnRet.value.reflected
                 = Some([ray |-> Ray(over_point(fnRet.value.cs),
                                     fnRet.value.cs.reflectv),
                         remaining |-> fnCall.remaining_reflections - 1])
             /\ fnRet.value.total_color
                 = fnRet.value.surface_color
                       + (fnCall.up_color
                              * fnRet.value.material.reflectiveness) \div 100

\* a grazing hit from glass into a thinner material that reflects, whose
\* reflected ray brought back a colour
C11_Witness ==
    /\ HitIsTotalInternal
    /\ fnRet.value.material.transparency # 0
    /\ fnRet.value.material.reflectiveness # 0
    /\ fnCall.remaining_reflections > 0
    /\ fnCall.up_color # BLACK
    /\ fnRet.value.total_color > fnRet.value.surface_color


\* a color_at_with_reflection_limit call has returned from a hit
HitReturned ==
    /\ fnCall.fn = "color_at_with_reflection_limit"
    /\ fnRet.done
    /\ fnRet.value.hit

\* C12: the colour of a hit is surface + reflected * R + refracted * (1 - R)
\* with R = schlick(cs) exactly when the material has reflectiveness > 0 and
\* transparency > 0, and surface + reflected + refracted in every other case
C12_SchlickMix ==
    HitReturned
    => LET v == fnRet.value
           R == schlick(v.cs)
       IN  IF v.material.reflectiveness > 0 /\ v.material.transparency > 0
           THEN v.total_color
                    = v.surface_color
                          + (v.reflected_color * R) \div 10000
                          + (v.refracted_color * (10000 - R)) \div 10000
           ELSE v.total_color
                    = v.surface_color + v.reflected_color + v.refracted_color

\* a hit on a reflecting and transparent material whose reflected and
\* refracted colours are both there and are weighted by a reflectance
\* strictly between 0 and 1
C12_Witness ==
    /\ HitReturned
    /\ fnRet.value.material.reflectiveness > 0
    /\ fnRet.value.material.transparency > 0
    /\ fnRet.value.reflected_color > 0
    /\ fnRet.value.refracted_color > 0
    /\ schlick(fnRet.value.cs) \in 1..9999
    /\ fnRet.value.total_color
           < fnRet.value.surface_color + fnRet.value.reflected_color
                 + fnRet.value.refracted_color


-----------------------------------------------------------------------------
(* Claims about schlick *)

\* a call of to_computed and schlick has returned
SchlickReturned == fnCall.fn = "schlick" /\ fnRet.done

\* eyev . normalv of the ComputedIntersection of that call
SchlickCos == dot(fnRet.value.cs.eyev, fnRet.value.cs.normalv)

\* C13: schlick returns a value between 0 and 1 for every
\* ComputedIntersection that to_computed makes, whatever the ray direction
\* and the pair mu_from, mu_to >= 1, and returns 1 when mu_from > mu_to and
\* sin2_t > 1
C13_SchlickBounds ==
    SchlickReturned
    => /\ fnRet.value.reflectance >= 0
       /\ fnRet.value.reflectance <= 10000
       /\ (/\ fnCall.mu_from > fnCall.mu_to
           /\ fnCall.mu_from * fnCall.mu_from * (1 - SchlickCos * SchlickCos)
                  > fnCall.mu_to * fnCall.mu_to)
          => fnRet.value.reflectance = 10000


\* C14 as it is stated: when mu_from = mu_to, schlick returns 0 for every
\* angle between eyev and normalv
C14_EqualIndexZero ==
    (SchlickReturned /\ fnCall.mu_from = fnCall.mu_to)
    => fnRet.value.reflectance = 0

\* C14: when mu_from = mu_to, r0 is 0 and schlick returns (1 - cos)^5 with
\* cos = eyev . normalv, which is 0 for a ray along the normal (cos = 1) and
\* 1 for a ray that grazes the surface (cos = 0)
C14_EqualIndex ==
    (SchlickReturned /\ fnCall.mu_from = fnCall.mu_to)
    => /\ fnRet.value.reflectance
              = 10000 * (1 - SchlickCos) * (1 - SchlickCos) * (1 - SchlickCos)
                      * (1 - SchlickCos) * (1 - SchlickCos)
       /\ SchlickCos = 1 => fnRet.value.reflectance = 0
       /\ SchlickCos = 0 => fnRet.value.reflectance = 10000

\* a unit ray that grazes the pole between two media of the same index got
\* the reflectance 1
C14_Witness ==
    /\ SchlickReturned
    /\ fnCall.mu_from = fnCall.mu_to
    /\ dot(fnCall.i.ray.direction, fnCall.i.ray.direction) = 1
    /\ SchlickCos = 0
    /\ fnRet.value.reflectance = 10000


-----------------------------------------------------------------------------
(* Claims about the shadow queries *)

\* the intersections of the world of the call with the ray from its point
\* toward the light, and the light's distance
ShadowXs ==
    intersect(fnCall.w,
              Ray(fnCall.point,
                  normalize(TupleSub(fnCall.w.point_lights[1].position,
                                     fnCall.point))))
ShadowDistance ==
    magnitude(TupleSub(fnCall.w.point_lights[1].position, fnCall.point))

\* the materials met strictly between the point and the light
MaterialsBetween ==
    {ShadowXs[k].body.material :
         k \in {j \in 1..Len(ShadowXs) :
                    ShadowXs[j].t > 0 /\ ShadowXs[j].t < ShadowDistance}}

\* 1.0 times the transparency of every material of the set
RECURSIVE TransparencyProduct(_)
TransparencyProduct(materials) ==
    IF materials = {} THEN 10000
    ELSE LET material == CHOOSE m \in materials : TRUE
         IN  (TransparencyProduct(materials \ {material})
                  * material.transparency) \div 100

\* no intersection lies at the point itself or at the light itself
NoneAtAnEnd ==
    \A k \in 1..Len(ShadowXs) :
        ShadowXs[k].t # 0 /\ ShadowXs[k].t # ShadowDistance

C16_OnlyStrictlyBetween ==
    (fnCall.fn = "transparency_factor" /\ fnRet.done)
    => fnRet.value = TransparencyProduct(MaterialsBetween)


\* some intersection lies strictly between the point and the light
HitsBetween ==
    {k \in 1..Len(ShadowXs) :
         ShadowXs[k].t > 0 /\ ShadowXs[k].t < ShadowDistance}

\* C17: with one light, is_shadowed(point) is true exactly when a body is
\* hit on the ray from the point toward the light at some 0 < t < distance;
\* it is false with nothing in between, with every body beyond the light and
\* with every body behind the point
C17_ShadowedIffBetween ==
    (fnCall.fn = "is_shadowed" /\ fnRet.done /\ Len(fnCall.w.point_lights) = 1)
    => fnRet.value = (HitsBetween # {})

\* a point with one sphere between it and the light and another beyond the
\* light was found in shadow
C17_Witness ==
    /\ fnCall.fn = "is_shadowed"
    /\ fnRet.done
    /\ HitsBetween # {}
    /\ \E k \in 1..Len(ShadowXs) : ShadowXs[k].t > ShadowDistance
    /\ fnRet.value = TRUE

\* a point whose world holds a sphere behind it and a sphere beyond the
\* light, and nothing else, was found lit
C17_WitnessLit ==
    /\ fnCall.fn = "is_shadowed"
    /\ fnRet.done
    /\ \E k \in 1..Len(ShadowXs) : ShadowXs[k].t < 0
    /\ \E k \in 1..Len(ShadowXs) : ShadowXs[k].t > ShadowDistance
    /\ HitsBetween = {}
    /\ fnRet.value = FALSE


-----------------------------------------------------------------------------
(* Claims about the surface colour *)

\* the Phong contribution of the n-th light of the call's world at its cs,
\* attenuated by the transparency factor from over_point toward that light
LightContribution(n) ==
    LET light == fnCall.w.point_lights[n]
        toward == [fnCall.w EXCEPT !.point_lights = <<light>>]
    IN  lighting(fnCall.cs.body.material, light, fnCall.cs.point,
                 fnCall.cs.eyev, fnCall.cs.normalv,
                 transparency_factor(toward, over_point(fnCall.cs)))

RECURSIVE SumOfLights(_)
SumOfLights(n) ==
    IF n = 0 THEN BLACK ELSE SumOfLights(n - 1) + LightContribution(n)

\* C18: surface_color_at(cs) returns the sum over the world's point lights of
\* each light's Phong contribution, attenuated by the transparency factor
\* from over_point toward that light, for any number of lights; no light
\* gives black
C18_SumOverLights ==
    (fnCall.fn = "surface_color_at" /\ fnRet.done)
    => fnRet.value
           = [panicked |-> FALSE,
              color |-> SumOfLights(Len(fnCall.w.point_lights))]


\* the terms of the lighting call: lightv . normalv, reflectv . eyev, and the
\* ambient, diffuse and specular colours before attenuation
LightDotNormal ==
    dot(normalize(TupleSub(fnCall.light.position, fnCall.point)),
        fnCall.normalv)
ReflectDotEye ==
    dot(reflect(TupleNeg(normalize(TupleSub(fnCall.light.position,
                                            fnCall.point))),
                fnCall.normalv),
        fnCall.eyev)
EffectiveColor == (fnCall.material.pattern * fnCall.light.intensity) \div 1000
Ambient == (EffectiveColor * fnCall.material.ambient) \div 100
Diffuse ==
    IF LightDotNormal < 0 THEN 0
    ELSE ((EffectiveColor * fnCall.material.diffuse) \div 100) * LightDotNormal
Specular ==
    IF LightDotNormal < 0 \/ ReflectDotEye <= 0 THEN 0
    ELSE (fnCall.light.intensity * fnCall.material.specular) \div 100

\* C19: lighting returns ambient + (diffuse + specular) * transparency_factor;
\* the ambient term is never attenuated, so a fully shadowed point gets the
\* ambient colour; with the light behind the surface diffuse and specular are
\* black, and with reflectv . eyev <= 0 the specular term is black
C19_Lighting ==
    (fnCall.fn = "lighting" /\ fnRet.done)
    => /\ fnRet.value
              = Ambient
                    + ((Diffuse + Specular) * fnCall.transparency_factor)
                          \div 10000
       /\ fnCall.transparency_factor = 0 => fnRet.value = Ambient
       /\ LightDotNormal < 0 => fnRet.value = Ambient
       /\ ReflectDotEye <= 0
          => fnRet.value
                 = Ambient + (Diffuse * fnCall.transparency_factor) \div 10000

\* a fully shadowed point that faces the light, seen from the light's side,
\* got the ambient colour and nothing else
C19_Witness ==
    /\ fnCall.fn = "lighting"
    /\ fnRet.done
    /\ fnCall.transparency_factor = 0
    /\ LightDotNormal > 0
    /\ ReflectDotEye > 0
    /\ Diffuse > 0
    /\ Specular > 0
    /\ fnRet.value = Ambient
    /\ Ambient > 0


-----------------------------------------------------------------------------
(* Claims about the colour written to the file *)

\* C20: to_rgb_string writes for every channel an integer from 0 to 255,
\* whatever the colour, components above 1.0 and below 0 included
C20_ChannelsClamped ==
    (fnCall.fn = "to_rgb_string" /\ fnRet.done)
    => \A k \in 1..3 : fnRet.value[k] >= 0 /\ fnRet.value[k] <= 255


-----------------------------------------------------------------------------
(* Claims about Tuple *)

\* the tag of a tuple: w = 1 is a point, w = 0 a vector
IsPoint(a) == a.w = 1
IsVector(a) == a.w = 0

\* C21: Tuple arithmetic keeps the tag: point - point is a vector, point -
\* vector is a point, vector - vector is a vector, and point + vector as
\* well as vector + point is a point
C21_TagsKept ==
    /\ (fnCall.fn = "sub" /\ fnRet.done)
       => /\ (IsPoint(fnCall.a) /\ IsPoint(fnCall.b)) => IsVector(fnRet.value)
          /\ (IsPoint(fnCall.a) /\ IsVector(fnCall.b)) => IsPoint(fnRet.value)
          /\ (IsVector(fnCall.a) /\ IsVector(fnCall.b))
             => IsVector(fnRet.value)
    /\ (fnCall.fn = "add" /\ fnRet.done)
       => /\ (IsPoint(fnCall.a) /\ IsVector(fnCall.b)) => IsPoint(fnRet.value)
          /\ (IsVector(fnCall.a) /\ IsPoint(fnCall.b)) => IsPoint(fnRet.value)


\* C30: the in-place operators agree with the binary ones on all four
\* components: after a -= b, a is a - b, and after a += b, a is a + b, for
\* every pair of tuples, points among them
C30_InPlaceAgrees ==
    /\ (fnCall.fn = "sub_assign" /\ fnRet.done)
       => fnRet.value = TupleSub(fnCall.a, fnCall.b)
    /\ (fnCall.fn = "add_assign" /\ fnRet.done)
       => fnRet.value = TupleAdd(fnCall.a, fnCall.b)


-----------------------------------------------------------------------------
(* Claims about saving the image *)

\* C25: every I/O failure met in save_as_ppm, creating the parent directory
\* or writing the file, comes back to the caller as the Err of the returned
\* io::Result; save_as_ppm never aborts the program
C25_IoFailureIsErr ==
    (fnCall.fn = "save_as_ppm" /\ fnRet.done)
    => /\ fnRet.value # "panic"
       /\ (fnCall.create_dir_all = "Err" /\ Len(fnCall.save_to.components) > 1)
          => fnRet.value = "Err"


-----------------------------------------------------------------------------
(* Claims about the patterns *)

\* the whole number n with n <= x < n + 1, x in thousandths
FloorOf(x) ==
    CHOOSE n \in -4..4 : n * 1000 <= x /\ x < (n + 1) * 1000

IsEven(n) == \E k \in -4..4 : n = 2 * k

\* C27: Striped gives colour a when floor(x) is even and colour b otherwise,
\* whatever y and z are, and on the negative side as well: x in [-1, 0)
\* gives b, x in [-2, -1) gives a
C27_StripedByFloor ==
    (fnCall.fn = "color_at_in_pattern_space" /\ fnRet.done)
    => /\ fnRet.value
              = IF IsEven(FloorOf(fnCall.position.x))
                THEN fnCall.pattern.color_a
                ELSE fnCall.pattern.color_b
       /\ (fnCall.position.x >= -1000 /\ fnCall.position.x < 0)
          => fnRet.value = fnCall.pattern.color_b
       /\ (fnCall.position.x >= -2000 /\ fnCall.position.x < -1000)
          => fnRet.value = fnCall.pattern.color_a

\* a point with x = -0.1 off the y and z axes got colour b
C27_Witness ==
    /\ fnCall.fn = "color_at_in_pattern_space"
    /\ fnRet.done
    /\ fnCall.position.x = -100
    /\ fnCall.position.y # 0
    /\ fnCall.position.z # 0
    /\ fnRet.value = fnCall.pattern.color_b


-----------------------------------------------------------------------------
(* Claims about to_computed *)

\* the body's normal at the hit point of the to_computed call, and its dot
\* product with the eye vector -ray.direction
BodyNormal ==
    normal_at(fnCall.i.body, Ray_position(fnCall.i.ray, fnCall.i.t))
BodyNormalDotEye == dot(BodyNormal, TupleNeg(fnCall.i.ray.direction))

\* C28: every ComputedIntersection of to_computed has normalv . eyev >= 0;
\* inside is true exactly when the body's normal points away from the eye,
\* then and only then normalv is the negated normal, and reflectv is the
\* ray's direction reflected about the stored normalv
C28_NormalFacesEye ==
    SchlickReturned
    => LET cs == fnRet.value.cs
           d == fnCall.i.ray.direction
       IN  /\ dot(cs.normalv, cs.eyev) >= 0
           /\ cs.inside = (BodyNormalDotEye < 0)
           /\ cs.inside => cs.normalv = TupleNeg(BodyNormal)
           /\ ~cs.inside => cs.normalv = BodyNormal
           /\ cs.reflectv
                  = TupleSub(d, TupleMul(cs.normalv, 2 * dot(d, cs.normalv)))

\* a ray that starts at the centre of the sphere met it from inside: the
\* normal was negated and the ray reflected about the negated normal
C28_Witness ==
    /\ SchlickReturned
    /\ BodyNormalDotEye < 0
    /\ fnRet.value.cs.inside
    /\ fnRet.value.cs.normalv = TupleNeg(BodyNormal)
    /\ fnRet.value.cs.reflectv = TupleNeg(fnCall.i.ray.direction)


-----------------------------------------------------------------------------
(* Claims about the two shadow queries *)

\* C29: with one light and only opaque bodies, is_shadowed(p) is true
\* exactly when transparency_factor(p) is below 1 (10000 ten-thousandths),
\* also when a surface lies exactly at the light or exactly at p
C29_ShadowedIffFactorBelowOne ==
    (fnCall.fn = "shadow_queries" /\ fnRet.done)
    => (fnRet.value.shadowed = (fnRet.value.factor < 10000))


-----------------------------------------------------------------------------
(* Claims about numeric degeneracy *)

\* C26: a primitive's intersect yields only comparable, finite t values and
\* its sort never panics; in particular a closed DoubleCone hit by a ray
\* with |a| < EPSILON and b = 0 yields an empty or finite result
C26_ComparableRoots ==
    (fnCall.fn = "intersect_in_object_space" /\ fnRet.done)
    => /\ ~fnRet.value.panicked
       /\ \A k \in 1..Len(fnRet.value.res) :
              fnRet.value.res[k].kind = "finite"


-----------------------------------------------------------------------------
(* Claims about groups and the world's intersect *)

\* the product of the transforms of group g and its ancestors, outermost
\* first, depth groups up at most
RECURSIVE AncestorProduct(_, _, _)
AncestorProduct(h, g, depth) ==
    IF depth = 0 THEN StackOverflow
    ELSE IF h[g].parent = None THEN h[g].transform
    ELSE LET outer == AncestorProduct(h, h[g].parent[1].to, depth - 1)
         IN  IF outer = StackOverflow THEN StackOverflow
             ELSE cross(outer, h[g].transform)

\* the bodies that sit in the items of some group
GroupedBodies ==
    UNION {{heap[g].items[k].body :
                k \in {j \in 1..Len(heap[g].items) :
                           heap[g].items[j].kind = "Body"}} :
               g \in 1..Len(heap)}

\* C22: the transform a body in a group uses when it is intersected is the
\* product of its ancestors' transforms, outermost first, times its own
C22_ProductOfAncestors ==
    \A body \in GroupedBodies :
        LET outer == AncestorProduct(heap, body.parent[1].to, Len(heap))
        IN  outer # StackOverflow
            => Cube_transform(heap, body) = cross(outer, body.transform)

\* what the last intersect call returned, and what each member of the world
\* or group returns for the same ray, in the order of the members
Returns == fnRet.value.xs.data
Member(k) ==
    IF fnRet.value.fn = "World::intersect"
    THEN Body_intersect(fnRet.value.of.bodies[k], fnRet.value.r)
    ELSE LET item == heap[fnRet.value.of].items[k]
         IN  IF item.kind = "Body"
             THEN Cube_intersect(heap, item.body, fnRet.value.r).data
             ELSE Group_intersect(heap, item.group.to, fnRet.value.r).data
Members ==
    IF fnRet.value.fn = "World::intersect"
    THEN Len(fnRet.value.of.bodies)
    ELSE Len(heap[fnRet.value.of].items)

RECURSIVE Concatenation(_)
Concatenation(k) ==
    IF k > Members THEN <<>> ELSE Member(k) \o Concatenation(k + 1)

Occurrences(d, e) == Cardinality({k \in 1..Len(d) : d[k] = e})

IntersectReturned == fnRet.done /\ fnRet.value.xs # StackOverflow

\* C23: World::intersect and Group::intersect return the intersections of
\* every member, each as often as the members return it and nothing else,
\* ascending by t
C23_ConcatenationSorted ==
    IntersectReturned
    => /\ Len(Returns) = Len(Concatenation(1))
       /\ \A k \in 1..Len(Returns) :
              Occurrences(Returns, Returns[k])
                  = Occurrences(Concatenation(1), Returns[k])
       /\ IsSorted(Returns)

\* a group of two members with two intersections each, which the sort had to
\* reorder
C23_Witness ==
    /\ IntersectReturned
    /\ fnRet.value.fn = "Group::intersect"
    /\ Members = 2
    /\ Len(Member(1)) = 2
    /\ Len(Member(2)) = 2
    /\ Returns # Concatenation(1)

\* group g holds an owning reference to group p: an Arc in its parent field,
\* an Arc among its items, or a body among its items whose parent field
\* holds an Arc
Owns(g, p) ==
    \/ heap[g].parent # None /\ heap[g].parent[1].strong
                             /\ heap[g].parent[1].to = p
    \/ \E k \in 1..Len(heap[g].items) :
           LET item == heap[g].items[k]
           IN  IF item.kind = "Group"
               THEN item.group.strong /\ item.group.to = p
               ELSE /\ item.body.parent # None
                    /\ item.body.parent[1].strong
                    /\ item.body.parent[1].to = p

\* the groups reached from g over at most depth owning references
RECURSIVE OwnedWithin(_, _)
OwnedWithin(g, depth) ==
    IF depth = 0 THEN {}
    ELSE LET near == {p \in 1..Len(heap) : Owns(g, p)}
         IN  near \cup UNION {OwnedWithin(p, depth - 1) : p \in near}

\* C24: the owning references form no cycle, the reference from a child to
\* its parent owns nothing, and no group is its own ancestor
C24_NoOwningCycle ==
    \A g \in 1..Len(heap) :
        /\ g \notin OwnedWithin(g, Len(heap))
        /\ heap[g].parent # None => ~heap[g].parent[1].strong
        /\ AncestorProduct(heap, g, Len(heap)) # StackOverflow

=============================================================================
